---- MODULE Spec2Model ----
(***************************************************************************)
(* A model of jsonapi-store-mongodb: the MongoStore handler of             *)
(* lib/mongoHandler.js (connection lifecycle, create / find / update /     *)
(* delete / search) over a MongoDB database that is modelled by the        *)
(* documented behaviour of the driver calls the handler makes, and the     *)
(* handler revision that validates and filters through                     *)
(* lib/customFiltering.js.                                                 *)
(*                                                                         *)
(* JavaScript values are tagged pairs <<tag, payload>>; JavaScript strings *)
(* are sequences of one-character strings, so that the conversions the     *)
(* code performs on them (hex parsing, case folding, pattern matching) are *)
(* computed and not assumed. JavaScript objects and BSON documents are     *)
(* functions from field names to values. An ObjectID has 12 bytes and 24   *)
(* hex digits in the driver; the model scales this to 1 byte and 2 hex     *)
(* digits.                                                                 *)
(***************************************************************************)
EXTENDS Integers, Sequences, FiniteSets, TLC

\* ------------------------------------------------------------------ bounds

\* Documents the database holds at most (over all collections).
MaxDocs == 2
\* Calls of initialise (first call and retries) per run.
MaxInit == 2
\* The largest page offset and page limit a search request carries.
MaxOffset == 1
MaxLimit == 2

\* ------------------------------------------------------------------ values

Undefined == <<"undefined", <<>>>>
Null == <<"null", <<>>>>
Str(s) == <<"string", s>>
Num(n) == <<"number", n>>
Bool(b) == <<"boolean", b>>
OidVal(h) == <<"ObjectID", h>>

\* A nested object (a function from keys to values), an array, a RegExp.
Obj(f) == <<"object", f>>
Arr(seq) == <<"array", seq>>
RegExp(source, flags) == <<"RegExp", [source |-> source, flags |-> flags]>>

IsString(v) == v[1] = "string"
IsArray(v) == v[1] = "array"
IsRegExp(v) == v[1] = "RegExp"
IsNumber(v) == v[1] = "number"
IsObjectID(v) == v[1] = "ObjectID"

\* An object without properties.
EmptyObj == [k \in {} |-> Undefined]

\* _.omitBy(o, value => value === undefined)
OmitUndefined(o) == [k \in {f \in DOMAIN o : o[f] # Undefined} |-> o[k]]

\* delete o[key]
DeleteKey(o, key) == [k \in DOMAIN o \ {key} |-> o[k]]

\* o[key] = value
SetKey(o, key, value) == [k \in DOMAIN o \cup {key} |-> IF k = key THEN value ELSE o[k]]

\* o[key] as JavaScript reads it: undefined for a missing property.
Get(o, key) == IF key \in DOMAIN o THEN o[key] ELSE Undefined

\* ------------------------------------------------------- mongodb.ObjectID

HexDigits == {"0", "1", "2", "3", "4", "5", "6", "7", "8", "9",
              "a", "b", "c", "d", "e", "f", "A", "B", "C", "D", "E", "F"}

\* The lower-case hex digit toHexString prints.
LowerHex(c) ==
    CASE c = "A" -> "a" [] c = "B" -> "b" [] c = "C" -> "c"
      [] c = "D" -> "d" [] c = "E" -> "e" [] c = "F" -> "f" [] OTHER -> c

\* The character code of each character of the model's alphabet; 63 stands for
\* a character outside it.
CharCode(c) ==
    CASE c = "-" -> 45 [] c = "." -> 46
      [] c = "0" -> 48 [] c = "1" -> 49 [] c = "2" -> 50 [] c = "3" -> 51
      [] c = "4" -> 52 [] c = "5" -> 53 [] c = "6" -> 54 [] c = "7" -> 55
      [] c = "8" -> 56 [] c = "9" -> 57
      [] c = "A" -> 65 [] c = "B" -> 66 [] c = "C" -> 67 [] c = "D" -> 68
      [] c = "E" -> 69 [] c = "F" -> 70
      [] c = "a" -> 97 [] c = "b" -> 98 [] c = "c" -> 99 [] c = "d" -> 100
      [] c = "e" -> 101 [] c = "f" -> 102 [] c = "z" -> 122 [] OTHER -> 63

HexDigit(n) ==
    CASE n = 10 -> "a" [] n = 11 -> "b" [] n = 12 -> "c" [] n = 13 -> "d"
      [] n = 14 -> "e" [] n = 15 -> "f" [] n = 0 -> "0" [] n = 1 -> "1"
      [] n = 2 -> "2" [] n = 3 -> "3" [] n = 4 -> "4" [] n = 5 -> "5"
      [] n = 6 -> "6" [] n = 7 -> "7" [] n = 8 -> "8" [] OTHER -> "9"

\* One byte as two hex digits.
ByteHex(c) == <<HexDigit(CharCode(c) \div 16), HexDigit(CharCode(c) % 16)>>

\* A string of 24 hex digits (scaled: 2).
IsHexIdString(s) == Len(s) = 2 /\ \A i \in 1..Len(s) : s[i] \in HexDigits

\* A string of 12 bytes (scaled: 1).
IsRawIdString(s) == Len(s) = 1 /\ CharCode(s[1]) # 63

\* ObjectID.isValid(id): a number, a 12-byte string or a 24-digit hex string.
\* An ObjectID is valid too.
IsValidObjectId(v) ==
    \/ IsNumber(v)
    \/ IsObjectID(v)
    \/ IsString(v) /\ (IsHexIdString(v[2]) \/ IsRawIdString(v[2]))

\* new ObjectID(id) for a valid string: the bytes named by the hex digits, or
\* the bytes of a 12-byte string. The payload is toHexString() of the result.
ObjectIDFromString(s) ==
    IF IsHexIdString(s) THEN OidVal([i \in 1..Len(s) |-> LowerHex(s[i])])
    ELSE OidVal(ByteHex(s[1]))

\* ------------------------------------------------------------ configuration

\* The collections of the database, one per resource type.
Types == {"articles", "people"}

\* resourceConfig.attributes of the resource the store is initialised with:
\* settings is the _settings of the attribute's Joi schema, "none" for a plain
\* attribute and the relation kind (__one or __many) for a relationship.
Attributes == [title |-> [settings |-> "none"], priority |-> [settings |-> "none"],
               author |-> [settings |-> "__one"]]

\* MongoStore._isRelationshipAttribute
IsRelationshipAttribute(name) == Attributes[name].settings \in {"__one", "__many"}

\* Every attribute name, relationship or not.
AllAttributeNames == DOMAIN Attributes

\* MongoStore._getRelationshipAttributeNames
GetRelationshipAttributeNames == {name \in DOMAIN Attributes : IsRelationshipAttribute(name)}

\* ------------------------------------------------------------------- state

VARIABLES
    url,             \* config.url is set
    db,              \* self._db: "undefined" or "open"
    ready,           \* self.ready
    resourceConfig,  \* self.resourceConfig: "undefined" or "set"
    inits,           \* calls of initialise so far
    connects,        \* MongoClient.connect promises not yet settled
    timers,          \* scheduled setTimeout retries
    handlers,        \* 'close' handlers registered on connections
    probes,          \* findOne probes issued by close handlers, not yet answered
    transport,       \* "up" or "down": whether the server can be reached
    indexes,         \* per run of the last .then(): createIndex request -> its state
    collections,     \* the database: type -> set of documents
    pending,         \* operations whose driver calls are in flight
    last,            \* the call that threw, issued a driver call or called back last
    mongoStore,      \* the module-level store of index.js
    populates        \* per store instance of the test rig: its call of populate

vars == <<url, db, ready, resourceConfig, inits, connects, timers, handlers,
          probes, transport, indexes, collections, pending, last, mongoStore, populates>>

\* What the operations of the one store of lib/mongoHandler.js leave alone.
others == <<mongoStore, populates>>

lifecycle == <<url, db, ready, resourceConfig, inits, connects, timers, handlers,
               probes, transport, indexes>>

\* ------------------------------------------------------------ error values

NoError == [kind |-> "null", status |-> "", code |-> "", title |-> "", detail |-> <<>>]

\* MongoStore._notFoundError(type, id)
NotFoundError(type, id) ==
    [kind |-> "object", status |-> "404", code |-> "ENOTFOUND",
     title |-> "Requested resource does not exist", detail |-> <<type, id>>]

\* MongoStore._unknownError(err)
UnknownError(err) ==
    [kind |-> "object", status |-> "500", code |-> "EUNKNOWN",
     title |-> "An unknown error has occured", detail |-> <<err>>]

\* The function MongoStore._unknownError itself, passed where its result is meant.
UnknownErrorFunction ==
    [kind |-> "function", status |-> "", code |-> "", title |-> "", detail |-> <<>>]

\* A bare string passed as the error.
StringError(s) ==
    [kind |-> "string", status |-> "", code |-> "", title |-> "", detail |-> <<s>>]

\* ------------------------------------------------------------ the database

\* How many documents the database holds.
DocCount == Cardinality(UNION {{<<t, d>> : d \in collections[t]} : t \in Types})

\* Whether a document satisfies a query whose values are all plain values:
\* field by field equality; a null matches a missing field too.
MatchesQuery(doc, query) ==
    \A k \in DOMAIN query :
        IF query[k] = Null THEN Get(doc, k) \in {Null, Undefined}
        ELSE k \in DOMAIN doc /\ doc[k] = query[k]

\* collection.find(query) for such a query.
FindDocs(type, query) == {d \in collections[type] : MatchesQuery(d, query)}

\* The document(s) of a collection with the given native primary key.
ByKey(type, oid) == {d \in collections[type] : d["_id"] = oid}

\* The outcomes a driver call can have: the server answers only while it can
\* be reached; any call can fail.
DriverOutcomes == IF transport = "up" /\ db = "open" THEN {"ok", "error"} ELSE {"error"}

\* ---------------------------------------------------------------- outcomes

\* The JavaScript string naming a resource type, and the collection it names.
TypeName(t) == Str(<<t>>)
CollectionOf(v) == v[2][1]

\* A call of an operation: its arguments, and the value self.ready had when
\* it was made. The other fields say how far the call got:
\*   how     "thrown" (the call threw), "issued" (a driver call is in flight)
\*           or "callback" (the callback was invoked);
\*   call    the driver call that was issued or answered last;
\*   drv     what that driver call did ("ok" or "error");
\*   err, result, total   the arguments the callback received (total is -1
\*           when no third argument was passed).
Request(op, type, id, arg) ==
    [op |-> op, type |-> type, id |-> id, arg |-> arg, ready |-> ready,
     how |-> "none", call |-> "none", drv |-> "none",
     err |-> NoError, result |-> <<>>, total |-> -1]

Thrown(req) == [req EXCEPT !.how = "thrown"]

Issued(req, call) == [req EXCEPT !.how = "issued", !.call = call]

Callback(req, call, drv, err, result) ==
    [req EXCEPT !.how = "callback", !.call = call, !.drv = drv, !.err = err,
                !.result = result]

NoOutcome ==
    [op |-> "none", type |-> "", id |-> Undefined, arg |-> EmptyObj, ready |-> FALSE,
     how |-> "none", call |-> "none", drv |-> "none",
     err |-> NoError, result |-> <<>>, total |-> -1]

\* MongoStore._mongoUuid(id) = mongodb.ObjectID(id) for a string that is valid.
MongoUuid(id) == ObjectIDFromString(id[2])

\* ------------------------------------------------------------------- find

\* The query find would pass if it looked the document up by key alone.
FindOneByKey(documentId) == "_id" :> documentId

\* The query find passes to findOne: the key, and isSoftDeleted false.
FindOneQuery(documentId) == ("_id" :> documentId) @@ ("isSoftDeleted" :> Bool(FALSE))

\* MongoStore.prototype.find: this._db.collection throws while there is no
\* connection handle, ObjectID throws on a string that is no identifier, and
\* the findOne callback reports an error and an empty result alike.
find(type, id, drv) ==
    /\ UNCHANGED <<others, lifecycle, collections, pending>>
    /\ LET req == Request("find", type, id, EmptyObj)
       IN  IF db = "undefined" \/ ~IsValidObjectId(id)
           THEN last' = Thrown(req)
           ELSE LET documentId == MongoUuid(id)
                    found == FindDocs(type, FindOneQuery(documentId))
                IN  IF drv = "error" \/ found = {}
                    THEN last' = Callback(req, "findOne", drv, NotFoundError(type, id), <<>>)
                    ELSE \E d \in found :
                            last' = Callback(req, "findOne", drv, NoError, <<d>>)

\* ----------------------------------------------------------------- create

\* MongoStore._toMongoDocument: the key is a freshly generated ObjectID (the
\* call passes no id), here the value gen the generator returned.
ToMongoDocument(resource, gen) == SetKey(OmitUndefined(resource), "_id", gen)

\* MongoStore.prototype.create up to the insertOne callback. A successful
\* insert leaves the re-read in flight.
create(newResource, gen, drv) ==
    /\ UNCHANGED <<others, lifecycle>>
    /\ LET type == CollectionOf(newResource["type"])
           req == Request("create", type, Get(newResource, "id"), newResource)
           stripped == SetKey(DeleteKey(newResource, "type"), "isSoftDeleted", Bool(FALSE))
           document == ToMongoDocument(stripped, gen)
       IN  IF db = "undefined"
           THEN /\ last' = Thrown(req)
                /\ UNCHANGED <<collections, pending>>
           ELSE IF drv = "error"
           THEN /\ last' = Callback(req, "insertOne", drv, UnknownError("driver"), <<>>)
                /\ UNCHANGED <<collections, pending>>
           ELSE IF ByKey(type, document["_id"]) # {}
           THEN /\ last' = Callback(req, "insertOne", drv, UnknownError("E11000"), <<>>)
                /\ UNCHANGED <<collections, pending>>
           ELSE /\ pending = {}
                /\ DocCount < MaxDocs
                /\ collections' = [collections EXCEPT ![type] = @ \cup {document}]
                /\ pending' = {[req |-> Issued(req, "findOne"), document |-> document]}
                /\ last' = Issued(req, "findOne")

\* The findOne(document) that follows a successful insertOne, and its callback.
create_findOne(p, drv) ==
    /\ p \in pending
    /\ p.req.op = "create"
    /\ UNCHANGED <<others, lifecycle, collections>>
    /\ pending' = pending \ {p}
    /\ LET found == FindDocs(p.req.type, p.document)
       IN  IF drv = "error"
           THEN \* callback(err): err is the insertOne error, which is null here
                last' = Callback(p.req, "findOne", drv, NoError, <<>>)
           ELSE IF found = {}
           THEN last' = Callback(p.req, "findOne", drv,
                                 StringError("Could not find document after insert"), <<>>)
           ELSE \E d \in found :
                   last' = Callback(p.req, "findOne", drv, NoError, <<d>>)

\* ----------------------------------------------------------------- delete

\* MongoStore.prototype.delete
delete(type, id, drv) ==
    /\ UNCHANGED <<others, lifecycle, pending>>
    /\ LET req == Request("delete", type, id, EmptyObj)
       IN  IF db = "undefined" \/ ~IsValidObjectId(id)
           THEN /\ last' = Thrown(req)
                /\ UNCHANGED collections
           ELSE LET documentId == MongoUuid(id)
                    found == ByKey(type, documentId)
                IN  IF drv = "error"
                    THEN /\ last' = Callback(req, "deleteOne", drv, UnknownError("driver"), <<>>)
                         /\ UNCHANGED collections
                    ELSE IF found = {}
                    THEN /\ last' = Callback(req, "deleteOne", drv, NotFoundError(type, id), <<>>)
                         /\ UNCHANGED collections
                    ELSE /\ collections' = [collections EXCEPT ![type] = @ \ found]
                         /\ last' = Callback(req, "deleteOne", drv, NoError,
                                             <<[deletedCount |-> Num(1)]>>)

\* ----------------------------------------------------------------- update

\* An update that replaces the document by the partial document (keeping the
\* key) instead of merging into it.
ReplaceDocument(doc, partialDocument) == SetKey(partialDocument, "_id", doc["_id"])

\* { $set: partialDocument } applied to a document.
ApplySet(doc, partialDocument) ==
    [k \in DOMAIN doc \cup DOMAIN partialDocument |->
        IF k \in DOMAIN partialDocument THEN partialDocument[k] ELSE doc[k]]

\* MongoStore.prototype.update: findOneAndUpdate on the key with
\* returnOriginal false. The server of the driver's generation rejects an
\* empty $set; later servers accept it: rejectEmpty is the server's choice.
update(type, id, partialResource, drv, rejectEmpty) ==
    /\ UNCHANGED <<others, lifecycle, pending>>
    /\ LET req == Request("update", type, id, partialResource)
       IN  IF db = "undefined" \/ ~IsValidObjectId(id)
           THEN /\ last' = Thrown(req)
                /\ UNCHANGED collections
           ELSE LET documentId == MongoUuid(id)
                    partialDocument == OmitUndefined(partialResource)
                    found == ByKey(type, documentId)
                IN  IF drv = "error"
                    THEN /\ last' = Callback(req, "findOneAndUpdate", drv,
                                             UnknownError("driver"), <<>>)
                         /\ UNCHANGED collections
                    ELSE IF DOMAIN partialDocument = {} /\ rejectEmpty
                    THEN /\ last' = Callback(req, "findOneAndUpdate", drv,
                                             UnknownError("empty $set"), <<>>)
                         /\ UNCHANGED collections
                    ELSE IF found = {}
                    THEN /\ last' = Callback(req, "findOneAndUpdate", drv,
                                             NotFoundError(type, id), <<>>)
                         /\ UNCHANGED collections
                    ELSE \E d \in found :
                            LET updated == ApplySet(d, partialDocument)
                            IN  /\ collections' =
                                       [collections EXCEPT ![type] = (@ \ {d}) \cup {updated}]
                                /\ last' = Callback(req, "findOneAndUpdate", drv,
                                                    NoError, <<updated>>)

\* ------------------------------------------------- filter to criteria

\* A FilterElement of request.processedFilter; operator is "none" where the
\* code finds a falsy operator.
Element(operator, value) == [operator |-> operator, value |-> value]

\* The decimal digits of a natural number.
RECURSIVE Digits(_)
Digits(n) == IF n < 10 THEN <<HexDigit(n)>> ELSE Digits(n \div 10) \o <<HexDigit(n % 10)>>

\* String(value), as '^' + value + '$' and new RegExp(value) convert a string
\* or a natural number.
ToStringChars(value) == IF IsString(value) THEN value[2] ELSE Digits(value[2])

\* MongoStore._filterElementToMongoExpr: an operator outside the table yields
\* undefined. (The table is built for every element that has an operator.)
FilterElementToMongoExpr(filterElement) ==
    LET value == filterElement.value
        operator == filterElement.operator
    IN  IF IsArray(value) THEN Obj("$in" :> value)
        ELSE IF operator = "none" THEN value
        ELSE CASE operator = ">" -> Obj("$gt" :> value)
               [] operator = "<" -> Obj("$lt" :> value)
               [] operator = "~" -> RegExp(<<"^">> \o ToStringChars(value) \o <<"$">>, <<"i">>)
               [] operator = ":" -> RegExp(ToStringChars(value), <<>>)
               [] OTHER -> Undefined

\* An object whose key order matters is a sequence of entries. The entries
\* the code builds from what filterMapper returned: one element without
\* operator per key.
ExtraFilterElements(extraFilters) ==
    [i \in 1..Len(extraFilters) |->
        [attribute |-> extraFilters[i].attribute,
         elements |-> <<Element("none", extraFilters[i].value)>>]]

\* Object.assign(target, source): a key of the target keeps its place and
\* takes the source's value, a new key is appended.
RECURSIVE Assign(_, _)
Assign(target, source) ==
    IF source = <<>> THEN target
    ELSE LET e == Head(source)
             at == {i \in 1..Len(target) : target[i].attribute = e.attribute}
         IN  Assign(IF at = {} THEN Append(target, e)
                    ELSE [target EXCEPT ![CHOOSE i \in at : TRUE] = e],
                    Tail(source))

\* mongoExpr !== null
NotNull(v) == v # Null

\* The clause one attribute of the filter contributes: null, the only
\* expression, or the $or of the expressions.
AttributeClause(entry) ==
    LET exprs == [i \in 1..Len(entry.elements) |->
                     FilterElementToMongoExpr(entry.elements[i])]
        kept == SelectSeq(exprs, NotNull)
        values == [i \in 1..Len(kept) |-> Obj(entry.attribute :> kept[i])]
    IN  IF Len(values) = 0 THEN Null
        ELSE IF Len(values) = 1 THEN values[1]
        ELSE Obj("$or" :> Arr(values))

\* MongoStore.prototype._getSearchCriteria. request.extraFilters is what
\* filterMapper returned for the request's header (empty without header or
\* mapper). There is no case for an empty list of clauses.
GetSearchCriteria(request) ==
    LET filter == Assign(request.filter, ExtraFilterElements(request.extraFilters))
        clauses == [i \in 1..Len(filter) |-> AttributeClause(filter[i])]
        criteria == SelectSeq(clauses, NotNull)
    IN  IF Len(criteria) = 1 THEN criteria[1]
        ELSE Obj("$and" :> Arr(criteria))

\* ----------------------------------------- relationship casting in search

\* isRelationship of search: the attribute is configured and has settings.
IsRelationship(attribute) ==
    attribute \in DOMAIN Attributes /\ Attributes[attribute].settings # "none"

\* castRelationshipId: a valid identifier string becomes an ObjectID, an
\* ObjectID stays what it is. (A number is valid too and becomes a generated
\* ObjectID; the model's requests carry no number for a relationship.)
CastRelationshipId(id) ==
    IF IsString(id) /\ IsValidObjectId(id) THEN MongoUuid(id) ELSE id

\* The keys of one object that name relationships are cast, one level deep.
CastKeys(o) ==
    Obj([k \in DOMAIN o[2] |->
            IF IsRelationship(k) THEN CastRelationshipId(o[2][k]) ELSE o[2][k]])

\* parseRelationshipAttributes of search
ParseRelationshipAttributes(attributes) ==
    IF IsArray(attributes)
    THEN Arr([i \in 1..Len(attributes[2]) |-> CastKeys(attributes[2][i])])
    ELSE CastKeys(attributes)

\* One round of the forEach over '$and', '$not', '$nor', '$or'.
CastStep(criteria, operator) ==
    IF operator \in DOMAIN criteria[2]
    THEN Obj(SetKey(criteria[2], operator, ParseRelationshipAttributes(criteria[2][operator])))
    ELSE ParseRelationshipAttributes(criteria)

CastCriteria(criteria) ==
    CastStep(CastStep(CastStep(CastStep(criteria, "$and"), "$not"), "$nor"), "$or")

\* ------------------------------------------------- the server's matching

ToLowerCase(c) == LowerHex(c)

\* Whether string s sorts before string t (by character code).
RECURSIVE StrLess(_, _)
StrLess(s, t) ==
    IF t = <<>> THEN FALSE
    ELSE IF s = <<>> THEN TRUE
    ELSE IF CharCode(s[1]) # CharCode(t[1]) THEN CharCode(s[1]) < CharCode(t[1])
    ELSE StrLess(Tail(s), Tail(t))

\* v < w for two values of one type; values of different types do not compare.
ValueLess(v, w) ==
    IF v[1] # w[1] THEN FALSE
    ELSE IF IsNumber(v) THEN v[2] < w[2]
    ELSE IF IsString(v) \/ IsObjectID(v) THEN StrLess(v[2], w[2])
    ELSE FALSE

\* Whether the pattern characters match the subject from position at on: "."
\* matches any character, every other character itself.
PatternAt(body, subject, at, ignoreCase) ==
    /\ at + Len(body) - 1 <= Len(subject)
    /\ \A i \in 1..Len(body) :
          \/ body[i] = "."
          \/ body[i] = subject[at + i - 1]
          \/ ignoreCase /\ ToLowerCase(body[i]) = ToLowerCase(subject[at + i - 1])

\* regexp.test(subject) for a pattern of literal characters and ".", with an
\* optional leading "^" and trailing "$".
RegExpTest(regexp, subject) ==
    LET source == regexp[2].source
        ignoreCase == regexp[2].flags = <<"i">>
        fromStart == Len(source) > 0 /\ source[1] = "^"
        rest == IF fromStart THEN Tail(source) ELSE source
        toEnd == Len(rest) > 0 /\ rest[Len(rest)] = "$"
        body == IF toEnd THEN SubSeq(rest, 1, Len(rest) - 1) ELSE rest
    IN  \E at \in 1..(Len(subject) + 1) :
           /\ fromStart => at = 1
           /\ toEnd => at + Len(body) - 1 = Len(subject)
           /\ PatternAt(body, subject, at, ignoreCase)

\* { field: value }: equality; null (and undefined, which the driver sends as
\* null) matches a missing field too.
EqMatch(doc, field, value) ==
    IF value \in {Null, Undefined} THEN Get(doc, field) \in {Null, Undefined}
    ELSE field \in DOMAIN doc /\ doc[field] = value

\* { field: expr } for the expressions the criteria contain.
MatchesField(doc, field, expr) ==
    IF IsRegExp(expr)
    THEN field \in DOMAIN doc /\ IsString(doc[field]) /\ RegExpTest(expr, doc[field][2])
    ELSE IF expr[1] = "object"
    THEN \A op \in DOMAIN expr[2] :
            CASE op = "$in" -> \E i \in 1..Len(expr[2][op][2]) :
                                   EqMatch(doc, field, expr[2][op][2][i])
              [] op = "$gt" -> field \in DOMAIN doc /\ ValueLess(expr[2][op], doc[field])
              [] op = "$lt" -> field \in DOMAIN doc /\ ValueLess(doc[field], expr[2][op])
              [] OTHER -> FALSE
    ELSE EqMatch(doc, field, expr)

\* Whether a document matches a query expression.
RECURSIVE Matches(_, _)
Matches(doc, criteria) ==
    \A k \in DOMAIN criteria[2] :
        IF k = "$and" THEN \A i \in 1..Len(criteria[2][k][2]) : Matches(doc, criteria[2][k][2][i])
        ELSE IF k = "$or" THEN \E i \in 1..Len(criteria[2][k][2]) : Matches(doc, criteria[2][k][2][i])
        ELSE MatchesField(doc, k, criteria[2][k])

\* Whether a query has a $and or $or without operands, which the servers of
\* the driver's generation reject ("must be a nonempty array").
RECURSIVE HasEmptyJunction(_)
HasEmptyJunction(criteria) ==
    \E k \in DOMAIN criteria[2] :
        /\ k \in {"$and", "$or"}
        /\ \/ Len(criteria[2][k][2]) = 0
           \/ \E i \in 1..Len(criteria[2][k][2]) : HasEmptyJunction(criteria[2][k][2][i])

\* collection.find(criteria)
FindCriteria(type, criteria) == {d \in collections[type] : Matches(d, criteria)}

\* ------------------------------------------------- sort and pagination

\* The place of a value's type in the server's sort order; a missing field
\* sorts as null.
TypeRank(v) ==
    CASE v[1] \in {"undefined", "null"} -> 1 [] v[1] = "number" -> 2
      [] v[1] = "string" -> 3 [] v[1] = "object" -> 4 [] v[1] = "array" -> 5
      [] v[1] = "ObjectID" -> 6 [] v[1] = "boolean" -> 7 [] OTHER -> 8

\* Whether v may come before w in ascending order.
SortsBefore(v, w) ==
    \/ TypeRank(v) < TypeRank(w)
    \/ TypeRank(v) = TypeRank(w) /\ ~ValueLess(w, v)

\* The orders in which a cursor over the documents may deliver them: every
\* arrangement that respects the sort parameter, if there is one.
CursorOrders(docs, sortParam) ==
    {s \in [1..Cardinality(docs) -> docs] :
        /\ \A i, j \in DOMAIN s : i # j => s[i] # s[j]
        /\ sortParam # <<>> =>
              \A i, j \in DOMAIN s :
                  i < j => IF sortParam[1].order = 1
                           THEN SortsBefore(Get(s[i], sortParam[1].attribute),
                                            Get(s[j], sortParam[1].attribute))
                           ELSE SortsBefore(Get(s[j], sortParam[1].attribute),
                                            Get(s[i], sortParam[1].attribute))}

\* MongoStore.prototype._applySort: the parameter passed to cursor.sort, <<>>
\* when there is no sort. A sort string is a sequence of its characters, the
\* attribute name being one item of it.
ApplySort(params) ==
    IF params.sort = Undefined \/ params.sort[2] = <<>> THEN <<>>
    ELSE LET attribute == params.sort[2]
         IN  IF attribute[1] = "-"
             THEN <<[attribute |-> Tail(attribute)[1], order |-> -1]>>
             ELSE <<[attribute |-> attribute[1], order |-> 1]>>

\* MongoStore.prototype._applyPagination: cursor.skip(offset).limit(limit)
\* applied to the documents in cursor order; a limit of 0 is no limit.
ApplyPagination(params, ordered) ==
    IF params.page = Undefined THEN ordered
    ELSE LET offset == params.page[2].offset
             limit == params.page[2].limit
             upto == IF limit = 0 THEN Len(ordered)
                      ELSE IF offset + limit < Len(ordered) THEN offset + limit
                      ELSE Len(ordered)
         IN  SubSeq(ordered, offset + 1, upto)

\* ----------------------------------------------------------------- search

\* MongoStore.prototype.search up to async.parallel: it throws while there is
\* no connection handle; otherwise the result fetch and the count are issued
\* with the cast criteria. rejectEmpty is the server's choice to reject a
\* $and without operands.
search(type, params, rejectEmpty) ==
    /\ UNCHANGED <<others, lifecycle, collections>>
    /\ LET req == Request("search", type, Undefined, params)
       IN  IF db = "undefined"
           THEN /\ last' = Thrown(req)
                /\ UNCHANGED pending
           ELSE LET criteria == CastCriteria(GetSearchCriteria(params))
                IN  /\ pending = {}
                    /\ pending' = {[req |-> Issued(req, "find"),
                                    criteria |-> criteria,
                                    rejected |-> rejectEmpty /\ HasEmptyJunction(criteria),
                                    resultSet |-> <<>>,
                                    totalRows |-> -1]}
                    /\ last' = Issued(req, "find")

\* What a driver call of a pending search does.
SearchOutcome(p, drv) ==
    IF drv = "error" THEN "error" ELSE IF p.rejected THEN "rejected" ELSE "ok"

\* The final callback of async.parallel: the first error, or both results.
SearchDone(p, call, outcome, resultSet, totalRows) ==
    IF outcome # "ok"
    THEN /\ pending' = pending \ {p}
         /\ last' = Callback(p.req, call, outcome, UnknownErrorFunction, <<>>)
    ELSE IF resultSet = <<>> \/ totalRows = -1
    THEN /\ pending' = {[p EXCEPT !.resultSet = resultSet, !.totalRows = totalRows]}
         /\ last' = [p.req EXCEPT !.call = call, !.drv = outcome]
    ELSE /\ pending' = pending \ {p}
         /\ last' = [Callback(p.req, call, outcome, NoError, resultSet)
                        EXCEPT !.total = totalRows]

\* cursor.toArray answers.
search_toArray(p, drv) ==
    /\ p \in pending
    /\ p.req.op = "search"
    /\ p.resultSet = <<>>
    /\ UNCHANGED <<others, lifecycle, collections>>
    /\ \E ordered \in CursorOrders(FindCriteria(p.req.type, p.criteria), ApplySort(p.req.arg)) :
          SearchDone(p, "toArray", SearchOutcome(p, drv),
                     <<ApplyPagination(p.req.arg, ordered)>>, p.totalRows)

\* collection.find(criteria).count answers.
search_count(p, drv) ==
    /\ p \in pending
    /\ p.req.op = "search"
    /\ p.totalRows = -1
    /\ UNCHANGED <<others, lifecycle, collections>>
    /\ SearchDone(p, "count", SearchOutcome(p, drv), p.resultSet,
                  Cardinality(FindCriteria(p.req.type, p.criteria)))

\* -------------------------------------------------------------- initialise

\* MongoStore.prototype._createIndexesForRelationships: one createIndex
\* request, { "<name>.id": 1 }, per relationship attribute name. The call is
\* given no callback and its promise is dropped: each request is in flight
\* when the function returns.
CreateIndexesForRelationships(collection, names) ==
    [keys \in {<<collection, name, "id", 1>> : name \in names} |-> "pending"]

\* The resource configuration the host framework passes to initialise for a
\* resource; no collection name is configured.
ResourceConfigOf(s) == [resource |-> s, collection |-> Undefined, attributes |-> Attributes]

\* resourceConfig.collection || resourceConfig.resource
ResourceName(config) ==
    IF config.collection \in {Undefined, Null, Str(<<>>)} THEN config.resource
    ELSE CollectionOf(config.collection)

\* The resource the store is made for.
StoreResource == "articles"

\* The index requests of one run of the last .then() of initialise.
IndexRequests ==
    CreateIndexesForRelationships(ResourceName(ResourceConfigOf(StoreResource)),
                                  GetRelationshipAttributeNames)

\* The synchronous part of MongoStore.prototype.initialise: without a url it
\* logs and returns; otherwise it keeps the resource configuration and starts
\* a connect attempt.
Initialise ==
    /\ inits' = inits + 1
    /\ IF ~url
       THEN UNCHANGED <<resourceConfig, connects>>
       ELSE /\ resourceConfig' = "set"
            /\ connects' = connects + 1

\* The host framework calls initialise.
initialise ==
    /\ inits < MaxInit
    /\ Initialise
    /\ UNCHANGED <<others, url, db, ready, timers, handlers, probes, transport, indexes,
                   collections, pending, last>>

\* The last .then() of the promise chain: it reads self._db, which throws
\* (an unhandled rejection) when no attempt has connected so far.
AfterConnect(handle) ==
    IF handle = "undefined"
    THEN UNCHANGED <<indexes, ready>>
    ELSE /\ indexes' = indexes \o <<IndexRequests>>
         /\ ready' = TRUE

\* MongoClient.connect resolves: the handle is kept, a 'close' handler is
\* registered on it, and the chain runs on to the last .then().
connectResolved ==
    /\ connects > 0
    /\ transport = "up"
    /\ connects' = connects - 1
    /\ db' = "open"
    /\ handlers' = handlers + 1
    /\ AfterConnect("open")
    /\ UNCHANGED <<others, url, resourceConfig, inits, timers, probes, transport,
                   collections, pending, last>>

\* MongoClient.connect rejects: .catch() schedules the retry, and the chain
\* still runs on to the last .then().
connectRejected ==
    /\ connects > 0
    /\ connects' = connects - 1
    /\ timers' = timers + 1
    /\ AfterConnect(db)
    /\ UNCHANGED <<others, url, db, resourceConfig, inits, handlers, probes, transport,
                   collections, pending, last>>

\* The setTimeout callback: self.initialise(resourceConfig).
retry ==
    /\ timers > 0
    /\ inits < MaxInit
    /\ timers' = timers - 1
    /\ Initialise
    /\ UNCHANGED <<others, url, db, ready, handlers, probes, transport, indexes,
                   collections, pending, last>>

\* The driver settles a createIndex request: the index was created, or the
\* request failed (nobody is told: the promise has no handler).
createIndexSettled(run, keys, drv) ==
    /\ run \in DOMAIN indexes
    /\ keys \in DOMAIN indexes[run]
    /\ indexes[run][keys] = "pending"
    /\ indexes' = [indexes EXCEPT ![run][keys] = IF drv = "ok" THEN "created" ELSE "failed"]
    /\ UNCHANGED <<others, url, db, ready, resourceConfig, inits, connects, timers, handlers,
                   probes, transport, collections, pending, last>>

\* The connection drops: every registered 'close' handler sets ready false and
\* issues its probe, a findOne on the collection 'Nope'.
close ==
    /\ db = "open"
    /\ transport = "up"
    /\ probes = 0
    /\ transport' = "down"
    /\ ready' = FALSE
    /\ probes' = handlers
    /\ UNCHANGED <<others, url, db, resourceConfig, inits, connects, timers, handlers,
                   indexes, collections, pending, last>>

\* A probe's callback runs: it takes no argument, and sets ready whatever the
\* probe's outcome was.
probeAnswered(drv) ==
    /\ probes > 0
    /\ probes' = probes - 1
    /\ ready' = TRUE
    /\ last' = Callback(Request("probe", "Nope", Num(0), EmptyObj), "findOne", drv,
                        NoError, <<>>)
    /\ UNCHANGED <<others, url, db, resourceConfig, inits, connects, timers, handlers,
                   transport, indexes, collections, pending>>

\* The server can be reached again (the driver reconnects by itself).
reconnect ==
    /\ transport = "down"
    /\ transport' = "up"
    /\ UNCHANGED <<others, url, db, ready, resourceConfig, inits, connects, timers, handlers,
                   probes, indexes, collections, pending, last>>

\* The server cannot be reached before any connection exists.
unreachable ==
    /\ db = "undefined"
    /\ transport = "up"
    /\ transport' = "down"
    /\ UNCHANGED <<others, url, db, ready, resourceConfig, inits, connects, timers, handlers,
                   probes, indexes, collections, pending, last>>

\* ------------------------------------------------- lib/customFiltering.js

\* An object literal whose property order matters: a sequence of entries
\* [key, value].
OrderedObj(entries) == <<"ordered", entries>>
Member(key, value) == [key |-> key, value |-> value]

\* typeof v === 'object' (null included).
TypeofObject(v) == v[1] \in {"object", "ordered", "array", "null", "ObjectID", "RegExp"}

\* A value in a condition: undefined, null, false, 0 and '' are falsy.
Truthy(v) == v \notin {Undefined, Null, Bool(FALSE), Num(0), Str(<<>>)}

\* The characters of the property names the model uses.
Spelling(key) ==
    CASE key = "author" -> <<"a", "u", "t", "h", "o", "r">>
      [] key = "authors" -> <<"a", "u", "t", "h", "o", "r", "s">>
      [] key = "title" -> <<"t", "i", "t", "l", "e">>
      [] key = "titles" -> <<"t", "i", "t", "l", "e", "s">>
      [] key = "priority" -> <<"p", "r", "i", "o", "r", "i", "t", "y">>
      [] key = "id" -> <<"i", "d">>
      [] key = "type" -> <<"t", "y", "p", "e">>
      [] key = "_id" -> <<"_", "i", "d">>
      [] key = "$and" -> <<"$", "a", "n", "d">>
      [] key = "$or" -> <<"$", "o", "r">>
      [] key = "$in" -> <<"$", "i", "n">>
      [] key = "$gt" -> <<"$", "g", "t">>
      [] key = "$lt" -> <<"$", "l", "t">>
      [] OTHER -> <<"?">>

\* Array.prototype.join(',') over the texts of the parts.
RECURSIVE Join(_)
Join(parts) ==
    IF parts = <<>> THEN <<>>
    ELSE IF Len(parts) = 1 THEN parts[1]
    ELSE parts[1] \o <<",">> \o Join(Tail(parts))

\* The text JSON.stringify prints for a value inside a document: a string in
\* quotes, an ObjectID as its hex string (toJSON), undefined inside an array
\* as null, an object's properties in their order without the undefined ones
\* (an object built by the code has one property where its text is taken).
RECURSIVE JsonText(_)
JsonText(v) ==
    CASE v[1] = "string" -> <<"\"">> \o v[2] \o <<"\"">>
      [] v[1] = "ObjectID" -> <<"\"">> \o v[2] \o <<"\"">>
      [] v[1] = "number" -> Digits(v[2])
      [] v[1] = "boolean" -> IF v[2] THEN <<"true">> ELSE <<"false">>
      [] v[1] = "array" ->
            <<"[">> \o Join([i \in 1..Len(v[2]) |-> JsonText(v[2][i])]) \o <<"]">>
      [] v[1] = "ordered" ->
            LET defined == SelectSeq(v[2], LAMBDA e : e.value # Undefined)
            IN  <<"{">> \o Join([i \in 1..Len(defined) |->
                                    <<"\"">> \o Spelling(defined[i].key) \o <<"\"", ":">>
                                    \o JsonText(defined[i].value)])
                \o <<"}">>
      [] v[1] = "object" ->
            LET keys == CHOOSE seq \in [1..Cardinality(DOMAIN v[2]) -> DOMAIN v[2]] :
                            \A i, j \in DOMAIN seq : i # j => seq[i] # seq[j]
                defined == SelectSeq(keys, LAMBDA k : v[2][k] # Undefined)
            IN  <<"{">> \o Join([i \in 1..Len(defined) |->
                                    <<"\"">> \o Spelling(defined[i]) \o <<"\"", ":">>
                                    \o JsonText(v[2][defined[i]])])
                \o <<"}">>
      [] OTHER -> <<"null">>

\* JSON.stringify(v): undefined for undefined, the text otherwise.
JsonStringify(v) == IF v = Undefined THEN Undefined ELSE Str(JsonText(v))

\* getExtraValidation(request): what validationMapper returns for the
\* request's header, an ordered object of rules; {} without a mapper.
\* request.validationMapper is undefined or that returned object.
getExtraValidation(request) ==
    IF request.validationMapper = Undefined THEN <<>> ELSE request.validationMapper[2]

\* validate(validator, toValidate) of validateResource: find returns the
\* element found (undefined when there is none), the other cases a boolean.
validate(validator, toValidate) ==
    IF IsArray(validator)
    THEN LET found == {i \in 1..Len(validator[2]) :
                          JsonStringify(validator[2][i]) = JsonStringify(toValidate)}
         IN  IF found = {} THEN Undefined
             ELSE validator[2][CHOOSE i \in found : \A j \in found : i <= j]
    ELSE IF TypeofObject(validator)
    THEN Bool(JsonStringify(validator) = JsonStringify(toValidate))
    ELSE Bool(validator = toValidate)

\* validateResource(request, newResource): the rules are applied in the
\* order of their keys, each only where newResource[key] is truthy; the
\* first one that fails throws.
validateResource(request, newResource) ==
    LET validation == getExtraValidation(request)
        failed == {i \in 1..Len(validation) :
                      /\ Truthy(Get(newResource, validation[i].key))
                      /\ ~Truthy(validate(validation[i].value, newResource[validation[i].key]))}
    IN  IF failed = {}
        THEN [thrown |-> FALSE, message |-> <<>>, value |-> newResource]
        ELSE LET first == CHOOSE i \in failed : \A j \in failed : i <= j
             IN  [thrown |-> TRUE,
                  message |-> <<"Invalid value passed for ", validation[first].key>>,
                  value |-> EmptyObj]

\* isRelationship(resourceConfig, attribute): the attribute, or the attribute
\* named by all but its last character when that is an 's', has _settings.
isRelationship(attribute) ==
    LET name == Spelling(attribute)
        singular == IF name[Len(name)] = "s" THEN SubSeq(name, 1, Len(name) - 1) ELSE <<>>
        HasSettings(a) == Attributes[a].settings # "none"
    IN  \/ attribute \in DOMAIN Attributes /\ HasSettings(attribute)
        \/ \E a \in DOMAIN Attributes : Spelling(a) = singular /\ HasSettings(a)

\* new ObjectId(n) for a number: the identifier generated for the time n. The
\* payload names the time; the bytes the process counter adds are left out.
ObjectIDFromNumber(n) == OidVal(<<"t">> \o Digits(n))

\* A cast that prints the bytes of the string as hex digits and returns that
\* string instead of an ObjectId.
castRelationshipIdHex(id) ==
    IF IsString(id) /\ IsValidObjectId(id)
    THEN Str(IF Len(id[2]) = 1 THEN ByteHex(id[2][1]) ELSE ByteHex(id[2][1]) \o ByteHex(id[2][2]))
    ELSE id

\* castRelationshipId(id): ObjectId.isValid holds of a number too.
castRelationshipId(id) ==
    IF IsString(id) /\ IsValidObjectId(id) THEN ObjectIDFromString(id[2])
    ELSE IF IsNumber(id) THEN ObjectIDFromNumber(id[2])
    ELSE id

\* parseRelationshipAttributes(key, val, resourceConfig): arrays element by
\* element under the same key; an object key by key, where a key that starts
\* with '$' leaves the key to check unchanged; an object with _bsontype as it
\* is; any other value cast where the key names a relationship.
RECURSIVE parseRelationshipAttributes(_, _)
parseRelationshipAttributes(key, val) ==
    LET KeyToCheck(valKey) == IF Spelling(valKey)[1] = "$" THEN key ELSE valKey
    IN  CASE val[1] = "array" ->
                Arr([i \in 1..Len(val[2]) |-> parseRelationshipAttributes(key, val[2][i])])
          [] val[1] \in {"ObjectID", "RegExp"} -> val
          [] val[1] = "object" ->
                Obj([valKey \in DOMAIN val[2] |->
                        parseRelationshipAttributes(KeyToCheck(valKey), val[2][valKey])])
          [] val[1] = "ordered" ->
                OrderedObj([i \in 1..Len(val[2]) |->
                               Member(val[2][i].key,
                                      parseRelationshipAttributes(KeyToCheck(val[2][i].key),
                                                                  val[2][i].value))])
          [] OTHER -> IF isRelationship(key) THEN castRelationshipId(val) ELSE val

\* parseObjectRelationships(resourceConfig, given)
parseObjectRelationships(given) ==
    [key \in DOMAIN given |-> parseRelationshipAttributes(key, given[key])]

\* What the value val the caller holds is after
\* parseRelationshipAttributes(key, val): parsedVal is the object val itself
\* (let parsedVal = val), so every property of an object is assigned its
\* parsed value in place; val.map builds a new array, the array given keeps
\* its elements, of which the objects are parsed in place.
RECURSIVE parsedValInPlace(_, _)
parsedValInPlace(key, val) ==
    CASE val[1] = "array" ->
            Arr([i \in 1..Len(val[2]) |-> parsedValInPlace(key, val[2][i])])
      [] val[1] \in {"object", "ordered"} -> parseRelationshipAttributes(key, val)
      [] OTHER -> val

\* The object given after parseObjectRelationships(resourceConfig, given):
\* result is a new object, the values of given are the ones the recursion
\* worked on.
givenInPlace(given) ==
    [key \in DOMAIN given |-> parsedValInPlace(key, given[key])]

\* getExtraFilters(request): one element without operator per key of what
\* filterMapper returned (request.extraFilters; empty without a mapper).
getExtraFilters(request) == ExtraFilterElements(request.extraFilters)

\* parseCriteriaToMongoExpr(MongoStore, filter)
parseCriteriaToMongoExpr(filter) ==
    LET clauses == [i \in 1..Len(filter) |-> AttributeClause(filter[i])]
        criteria == SelectSeq(clauses, NotNull)
    IN  IF Len(criteria) = 0 THEN Obj(EmptyObj)
        ELSE IF Len(criteria) = 1 THEN criteria[1]
        ELSE Obj("$and" :> Arr(criteria))

\* ------------------------- the handler that uses lib/customFiltering.js

\* MongoStore._invalidError(type, message)
InvalidError(type, message) ==
    [kind |-> "object", status |-> "400", code |-> "EINVALID",
     title |-> <<"The given object was invalid for the resource ", type>>,
     detail |-> message]

\* resourceConfig.onCreateSettings: the resource of the model configures none.
OnCreateSettings == Undefined

\* What a request carries beside its parameters: the rules validationMapper
\* returns for its headers (undefined without a mapper) and the filters
\* filterMapper returns for them.
ScopedRequest(validationMapper, extraFilters) ==
    [validationMapper |-> validationMapper, extraFilters |-> extraFilters]

\* The criteria find adds to the key: the extra filters as an expression, its
\* relationship values cast.
ScopeCriteria(request) ==
    parseObjectRelationships(parseCriteriaToMongoExpr(getExtraFilters(request))[2])

\* MongoStore.prototype.find with the extra filters:
\* findOne({ _id: documentId, ...criteria }).
find_scoped(request, type, id, drv) ==
    /\ UNCHANGED <<others, lifecycle, collections, pending>>
    /\ LET req == Request("find", type, id, request)
       IN  IF db = "undefined" \/ ~IsValidObjectId(id)
           THEN last' = Thrown(req)
           ELSE LET documentId == MongoUuid(id)
                    criteria == ScopeCriteria(request)
                    query == [k \in {"_id"} \cup DOMAIN criteria |->
                                 IF k \in DOMAIN criteria THEN criteria[k] ELSE documentId]
                    found == FindCriteria(type, Obj(query))
                IN  IF drv = "error" \/ found = {}
                    THEN last' = Callback(req, "findOne", drv, NotFoundError(type, id), <<>>)
                    ELSE \E d \in found :
                            last' = Callback(req, "findOne", drv, NoError, <<d>>)

\* A try block that casts the resource without validating it.
ParseUnvalidated(request, resource) ==
    [thrown |-> FALSE, message |-> <<>>, value |-> parseObjectRelationships(resource)]

\* The try block of create and update:
\* parseObjectRelationships(this.resourceConfig, validateResource(request, resource))
ParseValidated(request, resource) ==
    LET validated == validateResource(request, resource)
    IN  IF validated.thrown THEN validated
        ELSE [validated EXCEPT !.value = parseObjectRelationships(validated.value)]

\* MongoStore.prototype.create with validation, up to the insertOne callback.
create_scoped(request, newResource, gen, drv) ==
    /\ UNCHANGED <<others, lifecycle>>
    /\ LET type == CollectionOf(newResource["type"])
           req == Request("create", type, Get(newResource, "id"),
                          [request |-> request, resource |-> newResource])
           parsed == ParseValidated(request, newResource)
           stripped == DeleteKey(parsed.value, "type")
           parsedResource == IF OnCreateSettings = Undefined THEN stripped
                             ELSE ApplySet(stripped, OnCreateSettings[2])
           document == ToMongoDocument(parsedResource, gen)
       IN  IF parsed.thrown
           THEN /\ last' = Callback(req, "none", "none",
                                    InvalidError(newResource["type"], parsed.message), <<>>)
                /\ UNCHANGED <<collections, pending>>
           ELSE IF db = "undefined"
           THEN /\ last' = Thrown(req)
                /\ UNCHANGED <<collections, pending>>
           ELSE IF drv = "error"
           THEN /\ last' = Callback(req, "insertOne", drv, UnknownError("driver"), <<>>)
                /\ UNCHANGED <<collections, pending>>
           ELSE IF ByKey(type, document["_id"]) # {}
           THEN /\ last' = Callback(req, "insertOne", drv, UnknownError("E11000"), <<>>)
                /\ UNCHANGED <<collections, pending>>
           ELSE /\ pending = {}
                /\ DocCount < MaxDocs
                /\ collections' = [collections EXCEPT ![type] = @ \cup {document}]
                /\ pending' = {[req |-> Issued(req, "findOne"), document |-> document]}
                /\ last' = Issued(req, "findOne")

\* MongoStore.prototype.delete of that handler: the key alone is the query.
delete_scoped(request, type, id, drv) ==
    /\ UNCHANGED <<others, lifecycle, pending>>
    /\ LET req == Request("delete", type, id, request)
       IN  IF db = "undefined" \/ ~IsValidObjectId(id)
           THEN /\ last' = Thrown(req)
                /\ UNCHANGED collections
           ELSE LET found == ByKey(type, MongoUuid(id))
                IN  IF drv = "error"
                    THEN /\ last' = Callback(req, "deleteOne", drv, UnknownError("driver"), <<>>)
                         /\ UNCHANGED collections
                    ELSE IF found = {}
                    THEN /\ last' = Callback(req, "deleteOne", drv, NotFoundError(type, id), <<>>)
                         /\ UNCHANGED collections
                    ELSE /\ collections' = [collections EXCEPT ![type] = @ \ found]
                         /\ last' = Callback(req, "deleteOne", drv, NoError,
                                             <<[deletedCount |-> Num(1)]>>)

\* MongoStore.prototype.update with validation: the key alone is the query of
\* findOneAndUpdate.
update_scoped(request, type, id, partialResource, drv, rejectEmpty) ==
    /\ UNCHANGED <<others, lifecycle, pending>>
    /\ LET req == Request("update", type, id,
                          [request |-> request, resource |-> partialResource])
           parsed == ParseValidated(request, partialResource)
       IN  IF parsed.thrown
           THEN /\ last' = Callback(req, "none", "none",
                                    InvalidError(Get(partialResource, "type"), parsed.message),
                                    <<>>)
                /\ UNCHANGED collections
           ELSE IF db = "undefined" \/ ~IsValidObjectId(id)
           THEN /\ last' = Thrown(req)
                /\ UNCHANGED collections
           ELSE LET partialDocument == OmitUndefined(parsed.value)
                    found == ByKey(type, MongoUuid(id))
                IN  IF drv = "error"
                    THEN /\ last' = Callback(req, "findOneAndUpdate", drv,
                                             UnknownError("driver"), <<>>)
                         /\ UNCHANGED collections
                    ELSE IF DOMAIN partialDocument = {} /\ rejectEmpty
                    THEN /\ last' = Callback(req, "findOneAndUpdate", drv,
                                             UnknownError("empty $set"), <<>>)
                         /\ UNCHANGED collections
                    ELSE IF found = {}
                    THEN /\ last' = Callback(req, "findOneAndUpdate", drv,
                                             NotFoundError(type, id), <<>>)
                         /\ UNCHANGED collections
                    ELSE \E d \in found :
                            LET updated == ApplySet(d, partialDocument)
                            IN  /\ collections' =
                                       [collections EXCEPT ![type] = (@ \ {d}) \cup {updated}]
                                /\ last' = Callback(req, "findOneAndUpdate", drv,
                                                    NoError, <<updated>>)

\* ------------------------------------------------------------ request inputs

\* Public ids requests carry: a valid identifier string and a string that is
\* no identifier.
IdA == Str(<<"a", "1">>)
IdBad == Str(<<"z", "z">>)
RequestIds == {IdA, IdBad}

\* The ObjectIDs the generator returns in the model: it may return any
\* value, among them the ones a public id converts to.
GeneratedIds == {OidVal(<<"a", "1">>), OidVal(<<"0", "0">>)}

TitleA == Str(<<"a">>)
TitleB == Str(<<"b">>)

\* Resources passed to create: with and without a public id, with a title
\* that is set or undefined.
NewResources ==
    {("type" :> TypeName(t)) @@ r :
        t \in Types,
        r \in {("id" :> IdA) @@ ("title" :> TitleA),
               ("title" :> Undefined)}}

\* Partial resources passed to update: a changed attribute beside an undefined
\* one, nothing but an undefined attribute, and the id and type the host
\* framework adds together with the soft-delete mark.
PartialResources ==
    {("title" :> TitleB) @@ ("priority" :> Undefined),
     ("title" :> Undefined),
     ("id" :> IdA) @@ ("type" :> TypeName("articles")) @@ ("isSoftDeleted" :> Bool(TRUE))}

\* Stored documents a search runs over, as create stores them: two with the
\* same title, two with the same priority, titles that differ in case only,
\* one author that is an identifier string and one that is not.
Doc1 ==
    ("_id" :> OidVal(<<"0", "0">>)) @@ ("isSoftDeleted" :> Bool(FALSE))
    @@ ("title" :> Str(<<"a">>)) @@ ("priority" :> Num(5)) @@ ("author" :> IdA)
Doc2 ==
    ("_id" :> OidVal(<<"0", "1">>)) @@ ("isSoftDeleted" :> Bool(FALSE))
    @@ ("title" :> Str(<<"A">>)) @@ ("priority" :> Num(9))
Doc3 ==
    ("_id" :> OidVal(<<"0", "2">>)) @@ ("isSoftDeleted" :> Bool(FALSE))
    @@ ("title" :> Str(<<"a">>)) @@ ("priority" :> Num(1))
Doc4 ==
    ("_id" :> OidVal(<<"0", "3">>)) @@ ("isSoftDeleted" :> Bool(FALSE))
    @@ ("title" :> Str(<<"a", "b">>)) @@ ("priority" :> Num(5)) @@ ("author" :> IdBad)
SearchDocs == {Doc1, Doc2, Doc3, Doc4}

\* One attribute of a filter with its elements.
Entry(attribute, elements) == [attribute |-> attribute, elements |-> elements]

\* Filters of search requests: none; one attribute with each operator of the
\* table, with an array value, with several elements, with an operator outside
\* the table; several attributes; a relationship attribute with one value,
\* with two values (alone and beside another attribute), with an array value.
SearchFilters ==
    {<<>>,
     <<Entry("title", <<Element("none", Str(<<"a">>))>>)>>,
     <<Entry("title", <<Element("~", Str(<<"a">>))>>)>>,
     <<Entry("title", <<Element(":", Str(<<"a">>))>>)>>,
     <<Entry("title", <<Element(":", Str(<<".", "b">>))>>)>>,
     <<Entry("priority", <<Element(">", Num(3))>>)>>,
     <<Entry("priority", <<Element("<", Num(5))>>)>>,
     <<Entry("title", <<Element("none", Arr(<<Str(<<"A">>), Str(<<"a", "b">>)>>))>>)>>,
     <<Entry("title", <<Element("none", Str(<<"A">>)), Element("none", Str(<<"a", "b">>))>>)>>,
     <<Entry("title", <<Element("!", Str(<<"a">>))>>)>>,
     <<Entry("title", <<Element("none", Str(<<"a">>))>>),
       Entry("priority", <<Element(">", Num(3))>>)>>,
     <<Entry("title", <<Element("none", Str(<<"a">>)), Element("none", Str(<<"a", "b">>))>>),
       Entry("priority", <<Element(">", Num(3)), Element("<", Num(3))>>)>>,
     <<Entry("author", <<Element("none", IdA)>>)>>,
     <<Entry("author", <<Element("none", IdBad)>>)>>,
     <<Entry("author", <<Element("none", IdA), Element("none", IdBad)>>)>>,
     <<Entry("title", <<Element("none", Str(<<"a">>))>>),
       Entry("author", <<Element("none", IdA), Element("none", IdBad)>>)>>,
     <<Entry("author", <<Element("none", Arr(<<IdA, IdBad>>))>>)>>}

\* What filterMapper returns: nothing, or one attribute with its value, a
\* string or null.
SearchExtraFilters ==
    {<<>>,
     <<[attribute |-> "title", value |-> Str(<<"a">>)]>>,
     <<[attribute |-> "title", value |-> Null]>>}

SearchSorts == {Undefined, Str(<<"priority">>), Str(<<"-", "priority">>)}

SearchPages ==
    {Undefined} \cup {Obj([offset |-> o, limit |-> l]) : o \in 0..MaxOffset, l \in 0..MaxLimit}

\* request.params and request.headers of a search, as far as search reads them.
SearchParams(filters, extras, sorts, pages) ==
    [filter : filters, extraFilters : extras, sort : sorts, page : pages]

\* Requests to the handler with validation and extra filters: without
\* mappers, with a rule on the title, with an extra filter on the title.
ScopedRequests ==
    {ScopedRequest(Undefined, <<>>),
     ScopedRequest(OrderedObj(<<Member("title", TitleA)>>), <<>>),
     ScopedRequest(Undefined, <<[attribute |-> "title", value |-> TitleA]>>)}

\* Resources passed to its create: one that meets the rule and the filter,
\* with a relationship, and one that does not.
ScopedResources ==
    {("type" :> TypeName("articles")) @@ r :
        r \in {("id" :> IdA) @@ ("title" :> TitleA) @@ ("author" :> IdA),
               ("id" :> IdA) @@ ("title" :> TitleB)}}

\* Partial resources passed to its update.
ScopedPartials ==
    {("title" :> TitleB) @@ ("priority" :> Undefined),
     ("title" :> TitleA) @@ ("priority" :> Num(1))}

\* ---------------------------------------------------------------- populate

\* The examples of a resource's configuration (resourceConfig.examples): for
\* articles two documents of the schema and between them one with a key the
\* schema does not have, for people a document of the schema.
Examples(s) ==
    IF s = "articles"
    THEN <<("type" :> TypeName(s)) @@ ("id" :> IdA) @@ ("title" :> TitleA),
           ("type" :> TypeName(s)) @@ ("id" :> IdA) @@ ("bogus" :> TitleA),
           ("type" :> TypeName(s)) @@ ("id" :> IdA) @@ ("title" :> TitleB)>>
    ELSE <<("type" :> TypeName(s)) @@ ("id" :> IdA) @@ ("title" :> TitleB)>>

\* Joi.validate(document, attributes): a key the schema does not have is an
\* error; the schema of a resource has its attributes, id and type.
JoiValidate(document, attributes) ==
    [error |-> \E key \in DOMAIN document : key \notin DOMAIN attributes \cup {"id", "type"},
     value |-> document]

\* The key the ObjectID generator returns for the k-th example of an
\* instance: the keys it generates differ from one another.
ExampleKey(s, k) == OidVal(<<IF s = "articles" THEN "a" ELSE "b", HexDigit(k)>>)

\* No instance has been populated. Per instance: how far populate got, per
\* example how far its iteratee got, and how often populate's callback ran.
NotPopulated == [s \in Types |-> [phase |-> "none", items |-> <<>>, callbacks |-> 0]]

\* Whether the iteratee of an example has called back, and whether with an error.
ItemFailed(item) == item.step \in {"rejected", "failed"}
ItemDone(item) == item.step \in {"rejected", "failed", "created"}

\* async.each: the final callback runs once, as soon as one iteratee has
\* called back with an error or all have called back without one. Given the
\* run as it was and the items as they are now, the count of callbacks.
EachCallback(run, items) ==
    IF run.callbacks = 0
       /\ \/ \E k \in DOMAIN items : ItemFailed(items[k])
          \/ \A k \in DOMAIN items : ItemDone(items[k])
    THEN 1
    ELSE run.callbacks

\* MongoStore.prototype.populate up to the call of dropDatabase: without a
\* connection handle it returns. Every instance of the test rig has the url
\* of the one database; the instances have a handle, or have none, alike.
populate(s) ==
    /\ populates[s].phase = "none"
    /\ populates' = [populates EXCEPT ![s].phase =
                        IF db = "undefined" THEN "returned" ELSE "dropDatabase"]
    /\ UNCHANGED <<mongoStore, lifecycle, collections, pending, last>>

\* The iteratee of async.each for one example, up to the call of insertOne in
\* self.create: validation, then the document create makes of the value.
Iteratee(s, k) ==
    LET validationResult == JoiValidate(Examples(s)[k], ResourceConfigOf(s).attributes)
        stripped == SetKey(DeleteKey(validationResult.value, "type"),
                           "isSoftDeleted", Bool(FALSE))
    IN  IF validationResult.error
        THEN [step |-> "rejected", type |-> s, document |-> EmptyObj]
        ELSE [step |-> "insertOne",
              type |-> CollectionOf(validationResult.value["type"]),
              document |-> ToMongoDocument(stripped, ExampleKey(s, k))]

\* The callback of dropDatabase: an error is logged and populate's callback
\* is not called; otherwise the database is empty now and async.each starts
\* the iteratee of every example.
populate_dropDatabase(s, drv) ==
    /\ populates[s].phase = "dropDatabase"
    /\ IF drv = "error"
       THEN /\ populates' = [populates EXCEPT ![s].phase = "failed"]
            /\ UNCHANGED collections
       ELSE LET items == [k \in DOMAIN Examples(s) |-> Iteratee(s, k)]
            IN  /\ collections' = [t \in Types |-> {}]
                /\ populates' = [populates EXCEPT
                                    ![s] = [phase |-> "each", items |-> items,
                                            callbacks |-> EachCallback(@, items)]]
    /\ UNCHANGED <<mongoStore, lifecycle, pending, last>>

\* One example's iteratee calls back: the run with that item's new step.
IterateeDone(s, k, step) ==
    LET items == [populates[s].items EXCEPT ![k].step = step]
    IN  populates' = [populates EXCEPT ![s].items = items,
                                       ![s].callbacks = EachCallback(populates[s], items)]

\* The insertOne callback of the create of one example.
populate_insertOne(s, k, drv) ==
    /\ populates[s].phase = "each"
    /\ k \in DOMAIN populates[s].items
    /\ populates[s].items[k].step = "insertOne"
    /\ LET item == populates[s].items[k]
       IN  IF drv = "error" \/ ByKey(item.type, item.document["_id"]) # {}
           THEN /\ IterateeDone(s, k, "failed")
                /\ UNCHANGED collections
           ELSE /\ collections' = [collections EXCEPT ![item.type] = @ \cup {item.document}]
                /\ populates' = [populates EXCEPT ![s].items[k].step = "findOne"]
    /\ UNCHANGED <<mongoStore, lifecycle, pending, last>>

\* The findOne callback of the create of one example: a driver error is
\* passed on as the insertOne error, which is null; a document that is gone
\* is an error.
populate_findOne(s, k, drv) ==
    /\ populates[s].phase = "each"
    /\ k \in DOMAIN populates[s].items
    /\ populates[s].items[k].step = "findOne"
    /\ LET item == populates[s].items[k]
       IN  IF drv = "ok" /\ FindDocs(item.type, item.document) = {}
           THEN IterateeDone(s, k, "failed")
           ELSE IterateeDone(s, k, "created")
    /\ UNCHANGED <<mongoStore, lifecycle, collections, pending, last>>

\* ---------------------------------------------------------------- index.js

\* new mongodb.Binary(id, mongodb.Binary.SUBTYPE_UUID)
BinaryUuid(id) == <<"Binary", id[2]>>

\* The module-level store before index.js is loaded.
NotLoaded ==
    [db |-> "undefined", ready |-> FALSE, connect |-> "none",
     resourcesToInitialise |-> <<>>, calls |-> <<>>, initialised |-> <<>>,
     indexes |-> {}, creating |-> {}]

\* The module-level store once index.js is loaded: no handle, not ready, an
\* empty mongodb.resourcesToInitialise, and the connect attempt in flight.
\* calls is the resources initialise was called with by the host framework,
\* initialised the resources whose initialisation ran, both in order.
Loaded == [NotLoaded EXCEPT !.connect = "pending"]

\* mongoStore._createIndexesForRelationships(collection, attributes): one
\* createIndex request per relationship attribute.
IndexCreateIndexesForRelationships(collection, attributes) ==
    {<<collection, name, "id", 1>> : name \in
        {n \in DOMAIN attributes : attributes[n].settings \in {"__one", "__many"}}}

\* mongoStore.handlers.create up to the call of insertOne, for every example.
IndexCreates(config) ==
    LET examples == Examples(config.resource)
    IN  {[type |-> CollectionOf(examples[k]["type"]), example |-> k, step |-> "insertOne",
          document |-> SetKey(examples[k], "_id", BinaryUuid(examples[k]["id"]))] :
            k \in DOMAIN examples}

\* mongoStore.handlers.initialise with a handle: the indexes are requested,
\* the examples' creates are issued and the store is ready.
IndexInitialised(store, resource) ==
    LET config == ResourceConfigOf(resource)
    IN  [store EXCEPT
            !.initialised = Append(@, resource),
            !.indexes = @ \cup IndexCreateIndexesForRelationships(config.resource,
                                                                  config.attributes),
            !.creating = @ \cup IndexCreates(config),
            !.ready = TRUE]

\* mongoStore.handlers.initialise: without a handle the resource is pushed
\* onto mongodb.resourcesToInitialise.
IndexInitialise(store, resource) ==
    IF store.db = "undefined"
    THEN [store EXCEPT !.resourcesToInitialise = Append(@, resource)]
    ELSE IndexInitialised(store, resource)

\* mongodb.resourcesToInitialise.forEach(mongoStore.handlers.initialise):
\* forEach visits the elements the array had when it was called.
RECURSIVE IndexForEach(_, _)
IndexForEach(store, queue) ==
    IF queue = <<>> THEN store
    ELSE IndexForEach(IndexInitialise(store, Head(queue)), Tail(queue))

\* The host framework calls initialise, once per resource.
index_initialise(resource) ==
    /\ mongoStore.connect # "none"
    /\ \A i \in DOMAIN mongoStore.calls : mongoStore.calls[i] # resource
    /\ mongoStore' = IndexInitialise([mongoStore EXCEPT !.calls = Append(@, resource)],
                                     resource)
    /\ UNCHANGED <<populates, lifecycle, collections, pending, last>>

\* The connect of the module resolves: the handle is kept and the last
\* .then() initialises what is queued.
index_connectResolved ==
    /\ mongoStore.connect = "pending"
    /\ transport = "up"
    /\ mongoStore' = IndexForEach([mongoStore EXCEPT !.db = "open", !.connect = "resolved"],
                                  mongoStore.resourcesToInitialise)
    /\ UNCHANGED <<populates, lifecycle, collections, pending, last>>

\* The connect of the module rejects: .catch() logs, and the last .then()
\* still calls initialise for what is queued.
index_connectRejected ==
    /\ mongoStore.connect = "pending"
    /\ mongoStore' = IndexForEach([mongoStore EXCEPT !.connect = "rejected"],
                                  mongoStore.resourcesToInitialise)
    /\ UNCHANGED <<populates, lifecycle, collections, pending, last>>

\* The insertOne callback of mongoStore.handlers.create: on an error the
\* callback logs it, otherwise the document is stored and read back.
index_insertOne(c, drv) ==
    /\ c \in mongoStore.creating
    /\ c.step = "insertOne"
    /\ IF drv = "error" \/ ByKey(c.type, c.document["_id"]) # {}
       THEN /\ mongoStore' = [mongoStore EXCEPT !.creating = @ \ {c}]
            /\ UNCHANGED collections
       ELSE /\ mongoStore' = [mongoStore EXCEPT
                                 !.creating = (@ \ {c}) \cup {[c EXCEPT !.step = "findOne"]}]
            /\ collections' = [collections EXCEPT ![c.type] = @ \cup {c.document}]
    /\ UNCHANGED <<populates, lifecycle, pending, last>>

\* The findOne callback of mongoStore.handlers.create: it logs an error.
index_findOne(c, drv) ==
    /\ c \in mongoStore.creating
    /\ c.step = "findOne"
    /\ mongoStore' = [mongoStore EXCEPT !.creating = @ \ {c}]
    /\ UNCHANGED <<populates, lifecycle, collections, pending, last>>

\* ---------------------------------------------------------- specification

Init ==
    /\ url \in BOOLEAN
    /\ db = "undefined"
    /\ ready = FALSE
    /\ resourceConfig = "undefined"
    /\ inits = 0
    /\ connects = 0
    /\ timers = 0
    /\ handlers = 0
    /\ probes = 0
    /\ transport \in {"up", "down"}
    /\ indexes = <<>>
    /\ collections = [t \in Types |-> {}]
    /\ pending = {}
    /\ last = NoOutcome
    /\ mongoStore = NotLoaded
    /\ populates = NotPopulated

\* The calls of the four id-addressed operations, with inputs from the given
\* sets, and the completion of a create in flight.
Operations(types, ids, resources, partials) ==
    \/ \E t \in types, i \in ids, drv \in DriverOutcomes : find(t, i, drv)
    \/ \E r \in resources, g \in GeneratedIds, drv \in DriverOutcomes : create(r, g, drv)
    \/ \E p \in pending, drv \in DriverOutcomes : create_findOne(p, drv)
    \/ \E t \in types, i \in ids, drv \in DriverOutcomes : delete(t, i, drv)
    \/ \E t \in types, i \in ids, r \in partials, drv \in DriverOutcomes :
          \E rejectEmpty \in IF DOMAIN OmitUndefined(r) = {} THEN BOOLEAN ELSE {TRUE} :
              update(t, i, r, drv, rejectEmpty)

\* The calls of search with inputs from the given sets, and the answers of
\* the two driver calls of a search in flight.
Searches(types, params) ==
    \/ \E t \in types, r \in params :
          \E rejectEmpty \in IF HasEmptyJunction(GetSearchCriteria(r)) THEN BOOLEAN ELSE {FALSE} :
              search(t, r, rejectEmpty)
    \/ \E p \in pending, drv \in DriverOutcomes : search_toArray(p, drv)
    \/ \E p \in pending, drv \in DriverOutcomes : search_count(p, drv)

\* The store from its construction on: the connection lifecycle, and requests
\* for one resource arriving at any time.
Next ==
    \/ initialise
    \/ connectResolved
    \/ connectRejected
    \/ retry
    \/ close
    \/ \E drv \in DriverOutcomes : probeAnswered(drv)
    \/ reconnect
    \/ unreachable
    \/ \E run \in DOMAIN indexes, drv \in DriverOutcomes :
          \E keys \in DOMAIN indexes[run] : createIndexSettled(run, keys, drv)
    \/ Operations({"articles"}, {IdA},
                  {("type" :> TypeName("articles")) @@ ("id" :> IdA) @@ ("title" :> TitleA)},
                  {("title" :> TitleB)})
    \/ Searches({"articles"},
                SearchParams({<<Entry("title", <<Element("none", TitleA)>>)>>},
                             {<<>>}, {Undefined}, {Undefined}))

Spec == Init /\ [][Next]_vars

\* The store once initialise has connected: requests on all resource types.
InitStore ==
    /\ url = TRUE
    /\ db = "open"
    /\ ready = TRUE
    /\ resourceConfig = "set"
    /\ inits = 1
    /\ connects = 0
    /\ timers = 0
    /\ handlers = 1
    /\ probes = 0
    /\ transport = "up"
    /\ indexes = <<IndexRequests>>
    /\ collections = [t \in Types |-> {}]
    /\ pending = {}
    /\ last = NoOutcome
    /\ mongoStore = NotLoaded
    /\ populates = NotPopulated

NextStore == Operations(Types, RequestIds, NewResources, PartialResources)

SpecStore == InitStore /\ [][NextStore]_vars

\* The connected store holding any of the documents, and search requests.
InitSearch ==
    /\ url = TRUE
    /\ db = "open"
    /\ ready = TRUE
    /\ resourceConfig = "set"
    /\ inits = 1
    /\ connects = 0
    /\ timers = 0
    /\ handlers = 1
    /\ probes = 0
    /\ transport = "up"
    /\ indexes = <<IndexRequests>>
    /\ \E docs \in SUBSET SearchDocs :
          collections = [t \in Types |-> IF t = "articles" THEN docs ELSE {}]
    /\ pending = {}
    /\ last = NoOutcome
    /\ mongoStore = NotLoaded
    /\ populates = NotPopulated

\* Every filter without sort and page, and every sort and page with no
\* filter and with one.
SearchRequests ==
    SearchParams(SearchFilters, SearchExtraFilters, {Undefined}, {Undefined})
    \cup SearchParams({<<>>, <<Entry("priority", <<Element(">", Num(3))>>)>>}, {<<>>},
                      SearchSorts, SearchPages)

NextSearch == Searches({"articles"}, SearchRequests)

SpecSearch == InitSearch /\ [][NextSearch]_vars

\* The connected store of the handler with validation and extra filters. The
\* generator returns the key the requests' id converts to, so that the
\* documents created can be addressed.
NextScoped ==
    \/ \E r \in ScopedRequests, i \in RequestIds, drv \in DriverOutcomes :
          find_scoped(r, "articles", i, drv)
    \/ \E r \in ScopedRequests, n \in ScopedResources, drv \in DriverOutcomes :
          create_scoped(r, n, MongoUuid(IdA), drv)
    \/ \E p \in pending, drv \in DriverOutcomes : create_findOne(p, drv)
    \/ \E r \in ScopedRequests, i \in RequestIds, drv \in DriverOutcomes :
          delete_scoped(r, "articles", i, drv)
    \/ \E r \in ScopedRequests, i \in RequestIds, n \in ScopedPartials,
          drv \in DriverOutcomes : update_scoped(r, "articles", i, n, drv, TRUE)

SpecScoped == InitStore /\ [][NextScoped]_vars

\* The functions that turn a filter into criteria, applied to filters of
\* bounded size.

\* The FilterElements of the inputs: without operator (a string, null, a
\* sequence), with each operator of the table, with one outside it.
CriteriaElements ==
    {Element("none", TitleA), Element("none", Null),
     Element("none", Arr(<<TitleA, TitleB>>)),
     Element(">", Num(3)), Element("<", Num(3)),
     Element("~", TitleA), Element(":", Str(<<"A", ".">>)),
     Element("!", TitleA)}

\* Filters of no attribute, of one attribute with one or two elements, and of
\* two or three attributes with one element each.
CriteriaFilters ==
    {<<>>}
    \cup {<<Entry("title", <<e>>)>> : e \in CriteriaElements}
    \cup {<<Entry("title", <<e, f>>)>> : e, f \in CriteriaElements}
    \cup {<<Entry("title", <<e>>), Entry("priority", <<f>>)>> : e, f \in CriteriaElements}
    \cup {<<Entry("title", <<e>>), Entry("priority", <<Element(">", Num(3))>>),
            Entry("author", <<f>>)>> :
             e \in CriteriaElements, f \in {Element("none", IdA), Element("none", Null)}}

\* The state the inputs are applied in: the connected store, and one request
\* whose filter is the input.
InitCriteria ==
    /\ url = TRUE
    /\ db = "open"
    /\ ready = TRUE
    /\ resourceConfig = "set"
    /\ inits = 1
    /\ connects = 0
    /\ timers = 0
    /\ handlers = 1
    /\ probes = 0
    /\ transport = "up"
    /\ indexes = <<IndexRequests>>
    /\ collections = [t \in Types |-> {}]
    /\ last = NoOutcome
    /\ mongoStore = NotLoaded
    /\ populates = NotPopulated
    /\ \E f \in CriteriaFilters, x \in SearchExtraFilters :
          pending = {[filter |-> f, extraFilters |-> x, sort |-> Undefined, page |-> Undefined]}

\* A call of one of the functions and what it returned.
Returned(function, arg, value) ==
    Callback(Request(function, "", Undefined, arg), "none", "none", NoError, <<value>>)

call_filterElementToMongoExpr(filterElement) ==
    /\ last' = Returned("_filterElementToMongoExpr", filterElement,
                        FilterElementToMongoExpr(filterElement))
    /\ UNCHANGED <<others, lifecycle, collections, pending>>

call_getSearchCriteria(request) ==
    /\ last' = Returned("_getSearchCriteria", request, GetSearchCriteria(request))
    /\ UNCHANGED <<others, lifecycle, collections, pending>>

call_parseCriteriaToMongoExpr(filter) ==
    /\ last' = Returned("parseCriteriaToMongoExpr", filter, parseCriteriaToMongoExpr(filter))
    /\ UNCHANGED <<others, lifecycle, collections, pending>>

NextCriteria ==
    \E request \in pending :
        \/ \E i \in 1..Len(request.filter) :
              \E j \in 1..Len(request.filter[i].elements) :
                  call_filterElementToMongoExpr(request.filter[i].elements[j])
        \/ call_getSearchCriteria(request)
        \/ call_parseCriteriaToMongoExpr(request.filter)

SpecCriteria == InitCriteria /\ [][NextCriteria]_vars

\* The functions of lib/customFiltering.js that validate and cast a resource
\* or an expression, applied to objects of bounded size.

\* A relationship value as an object: its type and id, in either order.
AuthorRef == OrderedObj(<<Member("type", TypeName("people")), Member("id", IdA)>>)
AuthorRefSwapped == OrderedObj(<<Member("id", IdA), Member("type", TypeName("people"))>>)

\* The objects given: resources and expressions with a title (one of them the
\* empty string), with or without a priority, and with a value under a
\* relationship key, its plural, or a key that names no relationship: valid
\* and invalid identifier strings, a number, an ObjectID, sequences, nested
\* objects and query operators.
CustomValues ==
    {IdA, IdBad, Num(5), Null, OidVal(<<"a", "1">>), Arr(<<IdA, IdBad>>),
     AuthorRef, AuthorRefSwapped,
     Obj("$in" :> Arr(<<IdA, TitleA>>)),
     Obj("title" :> Obj("$gt" :> IdA))}

CustomGiven ==
    {("id" :> IdA) @@ t @@ q @@ a :
        t \in {("title" :> TitleA), ("title" :> TitleB), ("title" :> Str(<<>>))},
        q \in {EmptyObj, ("priority" :> Num(1)), ("priority" :> Num(0))},
        a \in {EmptyObj} \cup {(k :> v) : k \in {"author", "authors"}, v \in CustomValues}}
    \cup {("$and" :> Arr(<<Obj(k :> v), Obj("author" :> IdA)>>)) :
             k \in {"author", "titles"}, v \in CustomValues}

\* What validationMapper returns for the requests: no mapper; a rule that is
\* a primitive; rules that are a sequence and a primitive; a rule that is an
\* object.
CustomValidations ==
    {Undefined,
     OrderedObj(<<Member("title", TitleA)>>),
     OrderedObj(<<Member("author", Arr(<<Str(<<"b", "2">>), IdA>>)),
                  Member("priority", Num(1))>>),
     OrderedObj(<<Member("author", AuthorRef)>>)}

InitCustomFiltering ==
    /\ url = TRUE
    /\ db = "open"
    /\ ready = TRUE
    /\ resourceConfig = "set"
    /\ inits = 1
    /\ connects = 0
    /\ timers = 0
    /\ handlers = 1
    /\ probes = 0
    /\ transport = "up"
    /\ indexes = <<IndexRequests>>
    /\ collections = [t \in Types |-> {}]
    /\ last = NoOutcome
    /\ mongoStore = NotLoaded
    /\ populates = NotPopulated
    /\ \E g \in CustomGiven, v \in CustomValidations :
          pending = {[given |-> g, request |-> ScopedRequest(v, <<>>)]}

call_validateResource(request, newResource) ==
    /\ last' = Returned("validateResource", [request |-> request, resource |-> newResource],
                        validateResource(request, newResource))
    /\ UNCHANGED <<others, lifecycle, collections, pending>>

\* A call of parseObjectRelationships on the object given of a request: it
\* returns the parsed object and leaves the object given as the recursion
\* has assigned it.
call_parseObjectRelationships(p) ==
    /\ p \in pending
    /\ last' = Returned("parseObjectRelationships", p.given, parseObjectRelationships(p.given))
    /\ pending' = (pending \ {p}) \cup {[p EXCEPT !.given = givenInPlace(p.given)]}
    /\ UNCHANGED <<others, lifecycle, collections>>

\* A call of parseObjectRelationships on the object the last call returned.
\* That object is new; the objects below it are the ones below the object
\* given, which the call before has parsed in place already.
call_parseObjectRelationshipsAgain ==
    /\ last.op = "parseObjectRelationships"
    /\ last' = Returned("parseObjectRelationships", last.result[1],
                        parseObjectRelationships(last.result[1]))
    /\ UNCHANGED <<others, lifecycle, collections, pending>>

\* The functions are applied to the object given, and
\* parseObjectRelationships to what it returned as well.
NextCustomFiltering ==
    \/ \E p \in pending : call_validateResource(p.request, p.given)
    \/ \E p \in pending : call_parseObjectRelationships(p)
    \/ call_parseObjectRelationshipsAgain

SpecCustomFiltering == InitCustomFiltering /\ [][NextCustomFiltering]_vars

\* The store from its construction on, without requests: the calls of
\* initialise and what the connection does.
NextLifecycle ==
    \/ initialise
    \/ connectResolved
    \/ connectRejected
    \/ retry
    \/ close
    \/ \E drv \in DriverOutcomes : probeAnswered(drv)
    \/ reconnect
    \/ unreachable
    \/ \E run \in DOMAIN indexes, drv \in DriverOutcomes :
          \E keys \in DOMAIN indexes[run] : createIndexSettled(run, keys, drv)

SpecLifecycle == Init /\ [][NextLifecycle]_vars

\* The store instances of the test rig, one per resource, all with the url of
\* one database, when the rig populates them: each has connected, or none has.
InitPopulate ==
    /\ url = TRUE
    /\ db \in {"undefined", "open"}
    /\ ready = (db = "open")
    /\ resourceConfig = "set"
    /\ inits = 1
    /\ connects = IF db = "open" THEN 0 ELSE 1
    /\ timers = 0
    /\ handlers = IF db = "open" THEN 1 ELSE 0
    /\ probes = 0
    /\ transport = "up"
    /\ indexes = IF db = "open" THEN <<IndexRequests>> ELSE <<>>
    /\ collections = [t \in Types |-> {}]
    /\ pending = {}
    /\ last = NoOutcome
    /\ mongoStore = NotLoaded
    /\ populates = NotPopulated

\* The driver answers a connected instance either way, an instance without a
\* handle issues no call.
NextPopulate ==
    \/ \E s \in Types : populate(s)
    \/ \E s \in Types, drv \in {"ok", "error"} : populate_dropDatabase(s, drv)
    \/ \E s \in Types, drv \in {"ok", "error"} :
          \E k \in DOMAIN populates[s].items : populate_insertOne(s, k, drv)
    \/ \E s \in Types, drv \in {"ok", "error"} :
          \E k \in DOMAIN populates[s].items : populate_findOne(s, k, drv)

SpecPopulate == InitPopulate /\ [][NextPopulate]_vars

\* The driver answers every call it was given, sooner or later.
DriverAnswers ==
    \E s \in Types, drv \in {"ok", "error"} :
        \/ populate_dropDatabase(s, drv)
        \/ \E k \in DOMAIN populates[s].items :
              populate_insertOne(s, k, drv) \/ populate_findOne(s, k, drv)

SpecPopulateFair == SpecPopulate /\ WF_vars(DriverAnswers)

\* The module-level store of index.js from the loading of the module on.
InitModule ==
    /\ url = FALSE
    /\ db = "undefined"
    /\ ready = FALSE
    /\ resourceConfig = "undefined"
    /\ inits = 0
    /\ connects = 0
    /\ timers = 0
    /\ handlers = 0
    /\ probes = 0
    /\ transport \in {"up", "down"}
    /\ indexes = <<>>
    /\ collections = [t \in Types |-> {}]
    /\ pending = {}
    /\ last = NoOutcome
    /\ mongoStore = Loaded
    /\ populates = NotPopulated

NextModule ==
    \/ \E resource \in Types : index_initialise(resource)
    \/ index_connectResolved
    \/ index_connectRejected
    \/ \E c \in mongoStore.creating, drv \in {"ok", "error"} : index_insertOne(c, drv)
    \/ \E c \in mongoStore.creating, drv \in {"ok", "error"} : index_findOne(c, drv)

SpecModule == InitModule /\ [][NextModule]_vars

\* ------------------------------------------------------------------ claims

\* The callback received no error.
Succeeded(o) == o.how = "callback" /\ o.err.kind = "null"

\* The callback received the structured error with the given code and status.
Failed(o, code, status) ==
    /\ o.how = "callback"
    /\ o.err.kind = "object"
    /\ o.err.code = code
    /\ o.err.status = status

\* No document of the collection has the public id, and none has the key the
\* id converts to.
NothingStoredFor(type, id) ==
    /\ \A d \in collections[type] : Get(d, "id") # id
    /\ IsValidObjectId(id) => ByKey(type, MongoUuid(id)) = {}

\* C1: after create(r) succeeded for a resource r that carries a public id, a
\* find on the same type with the public id of the returned item (the driver
\* not failing) yields the stored document, with every attribute of r at its
\* created value, and not ENOTFOUND.
C1_CreateFindRoundTrip ==
    [][(/\ last.op = "create"
        /\ Succeeded(last)
        /\ last.result # <<>>
        /\ "id" \in DOMAIN last.result[1]
        /\ last'.op = "find"
        /\ last'.type = last.type
        /\ last'.id = last.result[1]["id"]
        /\ last'.drv # "error")
       => (/\ Succeeded(last')
           /\ last'.result = last.result
           /\ \A k \in DOMAIN last.arg \ {"type"} :
                 last.arg[k] # Undefined => Get(last'.result[1], k) = last.arg[k])]_vars

\* C1: a create of a resource with a public id has succeeded.
C1_Created ==
    last.op = "create" /\ Succeeded(last) /\ last.result # <<>>
    /\ "id" \in DOMAIN last.result[1]

\* C2: a successful update(id, partialResource) sets exactly the fields of
\* partialResource that are not undefined on the document with that key, keeps
\* every other field of it, and changes no other document of any collection.
C2_UpdatePartialMerge ==
    [][(last'.op = "update" /\ Succeeded(last'))
       => LET type == last'.type
              key == MongoUuid(last'.id)
              partial == last'.arg
              given == {k \in DOMAIN partial : partial[k] # Undefined}
          IN  \E before \in collections[type], after \in collections'[type] :
                 /\ before["_id"] = key
                 /\ after["_id"] = key
                 /\ DOMAIN after = DOMAIN before \cup given
                 /\ \A k \in given : after[k] = partial[k]
                 /\ \A k \in DOMAIN before \ given : after[k] = before[k]
                 /\ collections'[type] \ {after} = collections[type] \ {before}
                 /\ \A other \in Types \ {type} : collections'[other] = collections[other]]_vars

\* C2: an update that carried an undefined field has succeeded on a document
\* that has fields the partial resource does not name, beside another document.
C2_Updated ==
    /\ last.op = "update"
    /\ Succeeded(last)
    /\ \E k \in DOMAIN last.arg : last.arg[k] = Undefined
    /\ \E k \in DOMAIN last.result[1] : k \notin DOMAIN last.arg \cup {"_id"}
    /\ DocCount = 2

\* C3: a delete of an id for which no document is stored (the driver not
\* failing) calls back with ENOTFOUND / 404 and leaves the store unchanged; a
\* successful delete of X leaves no document under X, and a find of X while no
\* document is stored for X calls back with ENOTFOUND.
C3_DeleteNotFound ==
    [][/\ (last'.op = "delete" /\ last'.drv # "error"
           /\ NothingStoredFor(last'.type, last'.id))
          => (Failed(last', "ENOTFOUND", "404") /\ collections' = collections)
       /\ (last'.op = "delete" /\ Succeeded(last'))
          => \A d \in collections'[last'.type] : d["_id"] # MongoUuid(last'.id)
       /\ (last'.op = "find" /\ last'.drv # "error"
           /\ NothingStoredFor(last'.type, last'.id))
          => Failed(last', "ENOTFOUND", "404")]_vars

\* C4: an update with an id for which no document is stored (the driver not
\* failing) calls back with ENOTFOUND and leaves the store unchanged; when a
\* document matches, the item passed to the callback is the document as it is
\* stored after the update.
C4_UpdateMissing ==
    [][/\ (last'.op = "update" /\ last'.drv # "error"
           /\ NothingStoredFor(last'.type, last'.id))
          => (Failed(last', "ENOTFOUND", "404") /\ collections' = collections)
       /\ (last'.op = "update" /\ Succeeded(last'))
          => (/\ last'.result # <<>>
              /\ last'.result[1] \in collections'[last'.type]
              /\ last'.result[1]["_id"] = MongoUuid(last'.id))]_vars

\* What a document must do to satisfy a FilterElement, by the operator table
\* of the specification: no operator is equality (membership for a sequence),
\* '>' and '<' compare, '~' is a case-insensitive match of the whole string,
\* ':' a case-insensitive match of a substring.
Satisfies(doc, attribute, element) ==
    LET v == Get(doc, attribute)
        pattern == ToStringChars(element.value)
        SameAt(at) ==
            /\ at + Len(pattern) - 1 <= Len(v[2])
            /\ \A i \in 1..Len(pattern) :
                  \/ pattern[i] = "."
                  \/ ToLowerCase(pattern[i]) = ToLowerCase(v[2][at + i - 1])
    IN  IF IsArray(element.value)
        THEN \E i \in 1..Len(element.value[2]) : v = element.value[2][i]
        ELSE CASE element.operator = "none" -> v = element.value
               [] element.operator = ">" -> ValueLess(element.value, v)
               [] element.operator = "<" -> ValueLess(v, element.value)
               [] element.operator = "~" ->
                    IsString(v) /\ Len(v[2]) = Len(pattern) /\ SameAt(1)
               [] element.operator = ":" ->
                    IsString(v) /\ \E at \in 1..(Len(v[2]) + 1) : SameAt(at)
               [] OTHER -> FALSE

\* The documents that satisfy, for each attribute of the filter, at least one
\* of the attribute's elements.
Satisfying(type, filter) ==
    {d \in collections[type] :
        \A i \in 1..Len(filter) :
            \E j \in 1..Len(filter[i].elements) :
                Satisfies(d, filter[i].attribute, filter[i].elements[j])}

\* Every operator of the filter is one of the table.
KnownOperators(filter) ==
    \A i \in 1..Len(filter) :
        \A j \in 1..Len(filter[i].elements) :
            filter[i].elements[j].operator \in {"none", ">", "<", "~", ":"}

\* C5: a search without sort and page (no extra filters, operators of the
\* table, both driver calls answered) returns exactly the stored documents
\* that satisfy, for each filtered attribute, at least one of its elements.
C5_SearchFilterSemantics ==
    (/\ last.op = "search"
     /\ last.how = "callback"
     /\ last.drv = "ok"
     /\ last.arg.sort = Undefined
     /\ last.arg.page = Undefined
     /\ last.arg.extraFilters = <<>>
     /\ KnownOperators(last.arg.filter))
    => (/\ Succeeded(last)
        /\ last.result # <<>>
        /\ {last.result[1][i] : i \in 1..Len(last.result[1])}
              = Satisfying(last.type, last.arg.filter)
        /\ Len(last.result[1]) = Cardinality(Satisfying(last.type, last.arg.filter)))

\* The documents of a collection that match the criteria of a request.
MatchingDocs(type, params) == FindCriteria(type, CastCriteria(GetSearchCriteria(params)))

\* Whether a sequence of documents is ordered by the sort string: ascending
\* by the attribute, descending when the string starts with '-'.
OrderedBy(items, sort) ==
    sort # Undefined =>
        LET descending == sort[2][1] = "-"
            a == sort[2][Len(sort[2])]
        IN  \A i, j \in 1..Len(items) :
               i < j => IF descending
                        THEN SortsBefore(Get(items[j], a), Get(items[i], a))
                        ELSE SortsBefore(Get(items[i], a), Get(items[j], a))

\* C6: a search (both driver calls answered) returns the matching documents
\* ordered by the sort attribute, restricted to the positions offset ..
\* offset+limit-1 when there is a page, and the number of all matching
\* documents as the total.
C6_SortPageTotal ==
    (last.op = "search" /\ last.how = "callback" /\ last.drv = "ok")
    => (/\ Succeeded(last)
        /\ last.result # <<>>
        /\ last.total = Cardinality(MatchingDocs(last.type, last.arg))
        /\ \E all \in [1..Cardinality(MatchingDocs(last.type, last.arg))
                          -> MatchingDocs(last.type, last.arg)] :
              /\ \A i, j \in DOMAIN all : i # j => all[i] # all[j]
              /\ OrderedBy(all, last.arg.sort)
              /\ last.result[1] =
                    IF last.arg.page = Undefined THEN all
                    ELSE LET first == last.arg.page[2].offset + 1
                             upto == last.arg.page[2].offset + last.arg.page[2].limit
                         IN  SubSeq(all, first, IF upto < Len(all) THEN upto ELSE Len(all)))

\* C7: a call of an operation made while the store is not ready does not
\* throw, and what it delivers to its callback is a structured error.
C7_FailFastWhenNotReady ==
    (last.op \notin {"none", "probe"} /\ ~last.ready)
    => (/\ last.how # "thrown"
        /\ last.how = "callback" => last.err.kind = "object")

\* C8: when the result fetch or the count of a search fails, the callback
\* receives a structured EUNKNOWN / 500 error, no items and no total.
C8_SearchFailure ==
    (last.op = "search" /\ last.how = "callback" /\ last.drv # "ok")
    => (/\ Failed(last, "EUNKNOWN", "500")
        /\ last.err.title # ""
        /\ last.result = <<>>
        /\ last.total = -1)

\* C9: when the re-read after a successful insertOne fails or finds no
\* document, create's callback receives a structured EUNKNOWN / 500 error with
\* a detail; create never calls back with neither an error nor an item.
C9_CreateItemOrError ==
    (last.op = "create" /\ last.how = "callback")
    => (/\ (last.call = "findOne" /\ (last.drv = "error" \/ last.result = <<>>))
            => (Failed(last, "EUNKNOWN", "500") /\ last.err.detail # <<>>)
        /\ ~(last.err.kind = "null" /\ last.result = <<>>))

\* C10: a find whose driver call reports an error calls back with EUNKNOWN /
\* 500; ENOTFOUND is reported only when the lookup completed without a match.
C10_FindErrorTaxonomy ==
    (last.op = "find" /\ last.how = "callback")
    => (/\ last.drv = "error" => Failed(last, "EUNKNOWN", "500")
        /\ last.err.code = "ENOTFOUND" => last.drv = "ok")

\* C11: a create or update whose resource validateResource rejects calls back
\* with the EINVALID error of status 400, whose detail names a rule key of
\* the request, issues no driver call, and leaves every collection (and the
\* calls in flight) as they were.
C11_InvalidLeavesStore ==
    [][(/\ last'.op \in {"create", "update"}
        /\ validateResource(last'.arg.request, last'.arg.resource).thrown)
       => /\ Failed(last', "EINVALID", "400")
          /\ \E i \in 1..Len(getExtraValidation(last'.arg.request)) :
                last'.err.detail = <<"Invalid value passed for ",
                                     getExtraValidation(last'.arg.request)[i].key>>
          /\ last'.call = "none"
          /\ collections' = collections
          /\ pending' = pending]_vars

\* An update with a title the rule forbids was rejected while the document it
\* addresses is stored.
C11_Rejected ==
    /\ last.op = "update"
    /\ Failed(last, "EINVALID", "400")
    /\ IsValidObjectId(last.id)
    /\ ByKey(last.type, MongoUuid(last.id)) # {}

\* The request of an id-addressed call of the handler with extra filters.
ScopeOf(o) == IF o.op = "update" THEN o.arg.request ELSE o.arg

\* The documents stored under the key the id converts to that do not satisfy
\* the criteria the request's extra filters yield.
FilteredOut(type, id, request) ==
    {d \in ByKey(type, MongoUuid(id)) : ~Matches(d, Obj(ScopeCriteria(request)))}

\* C12: when the document with the requested id is stored but does not
\* satisfy the extra filter criteria of the request, a find, update or delete
\* that the driver answers calls back with ENOTFOUND, and no collection
\* changes.
C12_FilteredIsNotFound ==
    [][(/\ last'.op \in {"find", "update", "delete"}
        /\ last'.how = "callback"
        /\ last'.drv = "ok"
        /\ IsValidObjectId(last'.id)
        /\ FilteredOut(last'.type, last'.id, ScopeOf(last')) # {})
       => /\ Failed(last', "ENOTFOUND", "404")
          /\ collections' = collections]_vars

\* C13: in every state, the native key _id of every stored document that has
\* a public id is the conversion of that id, and no two documents of one
\* collection have the same public id.
C13_PrimaryKey ==
    \A t \in Types :
        /\ \A d \in collections[t] :
              "id" \in DOMAIN d => /\ IsValidObjectId(d["id"])
                                   /\ d["_id"] = MongoUuid(d["id"])
        /\ \A d, e \in collections[t] :
              ("id" \in DOMAIN d /\ "id" \in DOMAIN e /\ d["id"] = e["id"]) => d = e

\* Whether a FilterElement has a native expression: a sequence, a value other
\* than null without operator, or an operator of the table.
HasNativeExpression(element) ==
    \/ IsArray(element.value)
    \/ element.operator = "none" /\ element.value # Null
    \/ element.operator \in {">", "<", "~", ":"}

\* The attributes of a filter that have an element with a native expression.
Contributing(filter) ==
    SelectSeq(filter, LAMBDA entry :
                 \E j \in 1..Len(entry.elements) : HasNativeExpression(entry.elements[j]))

\* The clauses of a composed expression: the operands of its $and, the
\* expression itself when it is a single clause, none when it is empty.
ClausesOf(expr) ==
    IF DOMAIN expr[2] = {} THEN <<>>
    ELSE IF DOMAIN expr[2] = {"$and"} THEN expr[2]["$and"][2]
    ELSE <<expr>>

\* C14: the expression parseCriteriaToMongoExpr composes has no clause for
\* an attribute none of whose elements has a native expression (no binding
\* of the attribute, no $or without operands), and is the expression composed
\* from the filter without those attributes.
C14_DroppedAttribute ==
    last.op = "parseCriteriaToMongoExpr" =>
        LET expr == last.result[1]
            dropped == {last.arg[i].attribute : i \in 1..Len(last.arg)}
                       \ {Contributing(last.arg)[i].attribute :
                             i \in 1..Len(Contributing(last.arg))}
        IN  /\ \A i \in 1..Len(ClausesOf(expr)) :
                  LET clause == ClausesOf(expr)[i][2]
                  IN  /\ DOMAIN clause \cap dropped = {}
                      /\ "$or" \in DOMAIN clause => Len(clause["$or"][2]) > 0
            /\ expr = parseCriteriaToMongoExpr(Contributing(last.arg))

\* The filter a composition starts from: _getSearchCriteria adds the extra
\* filters to the request's filter, parseCriteriaToMongoExpr is given it.
ComposedFilter(o) ==
    IF o.op = "_getSearchCriteria"
    THEN Assign(o.arg.filter, ExtraFilterElements(o.arg.extraFilters))
    ELSE o.arg

\* The clauses the attributes of a filter contribute, in attribute order.
ContributedClauses(filter) ==
    SelectSeq([i \in 1..Len(filter) |-> AttributeClause(filter[i])], NotNull)

\* C15: what _getSearchCriteria and parseCriteriaToMongoExpr return is the
\* empty expression when no attribute contributes a clause, the clause itself
\* when exactly one does, and the $and of the clauses in attribute order when
\* several do.
C15_Composition ==
    last.op \in {"_getSearchCriteria", "parseCriteriaToMongoExpr"} =>
        LET clauses == ContributedClauses(ComposedFilter(last))
            expr == last.result[1]
        IN  /\ Len(clauses) = 0 => expr = Obj(EmptyObj)
            /\ Len(clauses) = 1 => expr = clauses[1]
            /\ Len(clauses) > 1 => expr = Obj("$and" :> Arr(clauses))

\* C16: _filterElementToMongoExpr returns, for an element without operator,
\* the value or $in of a sequence; for '>' and '<', $gt and $lt of the value;
\* for '~', the case-insensitive pattern ^value$; for ':', the
\* case-insensitive pattern whose source is the value as given.
C16_OperatorTable ==
    last.op = "_filterElementToMongoExpr" =>
        LET value == last.arg.value
            operator == last.arg.operator
            expr == last.result[1]
        IN  /\ operator = "none" =>
                  expr = IF IsArray(value) THEN Obj("$in" :> value) ELSE value
            /\ operator = ">" => expr = Obj("$gt" :> value)
            /\ operator = "<" => expr = Obj("$lt" :> value)
            /\ operator = "~" =>
                  /\ IsRegExp(expr)
                  /\ expr[2].source = <<"^">> \o ToStringChars(value) \o <<"$">>
                  /\ expr[2].flags = <<"i">>
            /\ operator = ":" =>
                  /\ IsRegExp(expr)
                  /\ expr[2].source = ToStringChars(value)
                  /\ expr[2].flags = <<"i">>

\* The keys that denote a relationship of the resource: its relationship
\* attribute author, and that name with a trailing 's'.
RelationshipKeys == {"author", "authors"}

\* The keys that start with '$'.
OperatorKeys == {"$and", "$or", "$in", "$gt", "$lt"}

\* A value with every scalar that is a valid identifier string under a
\* governing key that denotes a relationship replaced by its ObjectID, and
\* everything else as it is. key is the governing key.
RECURSIVE CastExpected(_, _)
CastExpected(key, val) ==
    LET Governing(k) == IF k \in OperatorKeys THEN key ELSE k
    IN  CASE val[1] = "array" -> Arr([i \in 1..Len(val[2]) |-> CastExpected(key, val[2][i])])
          [] val[1] = "object" ->
                Obj([k \in DOMAIN val[2] |-> CastExpected(Governing(k), val[2][k])])
          [] val[1] = "ordered" ->
                OrderedObj([i \in 1..Len(val[2]) |->
                               Member(val[2][i].key,
                                      CastExpected(Governing(val[2][i].key), val[2][i].value))])
          [] val[1] = "string" ->
                IF key \in RelationshipKeys /\ IsValidObjectId(val)
                THEN ObjectIDFromString(val[2]) ELSE val
          [] OTHER -> val

\* C17: parseObjectRelationships returns the object given with a scalar
\* replaced by its ObjectID if and only if it is a valid identifier string
\* whose governing key denotes a relationship; every other value, every key
\* and the order of every array are as given.
C17_CastingRule ==
    last.op = "parseObjectRelationships" =>
        /\ DOMAIN last.result[1] = DOMAIN last.arg
        /\ \A key \in DOMAIN last.arg :
              last.result[1][key] =
                  CastExpected(IF key \in OperatorKeys THEN "" ELSE key, last.arg[key])

\* C18: parseObjectRelationships applied to what parseObjectRelationships
\* returned returns the same object again, and a value given that is an
\* ObjectID is returned as it is.
C18_CastingIdempotent ==
    [][/\ (/\ last.op = "parseObjectRelationships"
           /\ last'.op = "parseObjectRelationships"
           /\ last'.arg = last.result[1])
          => last'.result = last.result
       /\ last'.op = "parseObjectRelationships"
          => \A key \in DOMAIN last'.arg :
                IsObjectID(last'.arg[key]) => last'.result[1][key] = last'.arg[key]]_vars

\* parseObjectRelationships was applied to what it had returned for an object
\* whose identifier strings it had cast.
C18_CastTwice ==
    /\ last.op = "parseObjectRelationships"
    /\ last.result[1] = last.arg
    /\ \E p \in pending :
          /\ last.arg = parseObjectRelationships(p.given)
          /\ \E key \in DOMAIN p.given :
                /\ IsString(p.given[key])
                /\ IsObjectID(last.arg[key])

\* A value with the order of its objects' properties forgotten.
RECURSIVE Structure(_)
Structure(v) ==
    CASE v[1] = "array" -> Arr([i \in 1..Len(v[2]) |-> Structure(v[2][i])])
      [] v[1] = "ordered" ->
            Obj([k \in {v[2][i].key : i \in 1..Len(v[2])} |->
                    Structure((CHOOSE e \in {v[2][i] : i \in 1..Len(v[2])} : e.key = k).value)])
      [] v[1] = "object" -> Obj([k \in DOMAIN v[2] |-> Structure(v[2][k])])
      [] OTHER -> v

\* Whether a value meets a rule: it equals a primitive rule, is structurally
\* equal to an object rule, or to one element of a sequence rule.
MeetsRule(rule, value) ==
    IF IsArray(rule)
    THEN \E i \in 1..Len(rule[2]) : Structure(rule[2][i]) = Structure(value)
    ELSE Structure(rule) = Structure(value)

\* C19: validateResource returns the resource given when there is no
\* validationMapper, or when every rule whose key the resource carries is
\* met; otherwise it throws the error that names the first such key whose
\* rule is not met.
C19_ValidateDecision ==
    last.op = "validateResource" =>
        LET resource == last.arg.resource
            rules == getExtraValidation(last.arg.request)
            unmet == {i \in 1..Len(rules) :
                         /\ rules[i].key \in DOMAIN resource
                         /\ ~MeetsRule(rules[i].value, resource[rules[i].key])}
            outcome == last.result[1]
        IN  IF unmet = {}
            THEN ~outcome.thrown /\ outcome.value = resource
            ELSE /\ outcome.thrown
                 /\ outcome.message =
                       <<"Invalid value passed for ",
                         rules[CHOOSE i \in unmet : \A j \in unmet : i <= j].key>>

\* C20: whenever the promise chain of an initialise turns ready from false to
\* true, every createIndex request that run issued for the relationship
\* attributes has been settled, and with success: none is in flight, none
\* has failed.
C20_ReadyAfterIndexes ==
    [][(~ready /\ ready' /\ connects' < connects)
       => /\ Len(indexes') > 0
          /\ \A keys \in DOMAIN indexes'[Len(indexes')] :
                indexes'[Len(indexes')][keys] = "created"]_vars

\* The store has a handle and is not ready: its connection was closed and no
\* probe has set ready since.
Dropped == db = "open" /\ ~ready

\* C21: the step in which the connection-closed event fires leaves ready
\* false, and from then on a step makes ready true only if it is the callback
\* of a probe read that succeeded.
C21_FailSafeAfterDrop ==
    [][/\ probes' > probes => ~ready'
       /\ (Dropped /\ ready')
          => (probes' < probes /\ last'.op = "probe" /\ last'.drv = "ok")]_vars

\* C22: after a connection-closed event the store keeps probing until a probe
\* succeeds: the step in which a probe completes with an error leaves a probe
\* in flight.
C22_ProbesUntilSuccess ==
    [][(probes' < probes /\ last'.op = "probe" /\ last'.drv = "error") => probes' > 0]_vars

\* C23: the step in which a connect attempt fails (a connect settles and no
\* 'close' handler is registered) schedules exactly one retry and does not
\* make ready true; the step in which a retry fires starts one connect
\* attempt with the resource configuration kept.
C23_ConnectRetry ==
    [][/\ (connects' < connects /\ handlers' = handlers)
          => (timers' = timers + 1 /\ (ready' => ready))
       /\ timers' < timers
          => (connects' = connects + 1 /\ resourceConfig' = "set")]_vars

\* How often a resource occurs in a sequence of resources.
Occurrences(seq, resource) == Cardinality({i \in DOMAIN seq : seq[i] = resource})

\* C24: in every state of the module-level store, no resource is in the
\* queue of pending initialisations twice; while there is no connection every
\* resource initialise was called with is queued and none is initialised; and
\* once the connection is established the resources initialised are the ones
\* initialise was called with, each once, in the order of the calls.
C24_PendingQueue ==
    /\ \A r \in Types : Occurrences(mongoStore.resourcesToInitialise, r) <= 1
    /\ mongoStore.db = "undefined"
       => /\ mongoStore.resourcesToInitialise = mongoStore.calls
          /\ mongoStore.initialised = <<>>
    /\ mongoStore.db = "open" => mongoStore.initialised = mongoStore.calls

\* How often the index with the given keys has been requested over all runs.
Requested(keys) == Cardinality({run \in DOMAIN indexes : keys \in DOMAIN indexes[run]})

\* C25: in every state, however often initialise was called, the store has
\* at most one connection with its connection-closed handler, and every
\* index has been requested at most once.
C25_InitialiseIdempotent ==
    /\ handlers <= 1
    /\ \A keys \in DOMAIN IndexRequests : Requested(keys) <= 1

\* The index requests the claim expects of a run: ascending on "<name>.id",
\* on the collection of the store's resource, for the attributes whose
\* settings are to-one or to-many.
ExpectedIndexes ==
    {<<StoreResource, name, "id", 1>> :
        name \in {n \in DOMAIN Attributes : Attributes[n].settings \in {"__one", "__many"}}}

\* C26: every run of index creation requests exactly the expected indexes,
\* and in every state in which initialise has been called once and its
\* connect has resolved there has been exactly one such run.
C26_RelationshipIndexes ==
    /\ \A run \in DOMAIN indexes : DOMAIN indexes[run] = ExpectedIndexes
    /\ (inits = 1 /\ handlers = 1) => Len(indexes) = 1

\* The one call of initialise has connected and requested the index of the
\* relationship attribute.
C26_Initialised ==
    /\ inits = 1
    /\ handlers = 1
    /\ ready
    /\ <<"articles", "author", "id", 1>> \in DOMAIN indexes[1]

\* C27: the step in which the database is dropped for an instance leaves no
\* document and starts every example, each one rejected or on its way to be
\* created; and the step in which populate's callback runs leaves no example
\* of that instance in flight: each has been created or rejected.
C27_PopulateWholeBatch ==
    [][\A s \in Types :
          /\ (populates[s].phase = "dropDatabase" /\ populates'[s].phase = "each")
             => /\ \A t \in Types : collections'[t] = {}
                /\ DOMAIN populates'[s].items = DOMAIN Examples(s)
                /\ \A k \in DOMAIN Examples(s) :
                      populates'[s].items[k].step =
                         IF JoiValidate(Examples(s)[k], Attributes).error
                         THEN "rejected" ELSE "insertOne"
          /\ populates'[s].callbacks > populates[s].callbacks
             => \A k \in DOMAIN populates'[s].items :
                   populates'[s].items[k].step \in {"rejected", "failed", "created"}]_vars

\* The stored documents of a type with the key the id converts to that are
\* not soft deleted.
Live(type, id) ==
    {d \in collections[type] :
        d["_id"] = MongoUuid(id) /\ Get(d, "isSoftDeleted") = Bool(FALSE)}

\* C28: a find that the driver answers delivers a document exactly when a
\* stored document has the requested key and isSoftDeleted false, and then it
\* delivers such a document; otherwise it calls back with ENOTFOUND; and every
\* document a create stores has isSoftDeleted false.
C28_FindSoftDelete ==
    [][/\ (last'.op = "find" /\ last'.how = "callback" /\ last'.drv = "ok")
          => IF Live(last'.type, last'.id) # {}
             THEN Succeeded(last') /\ last'.result[1] \in Live(last'.type, last'.id)
             ELSE Failed(last', "ENOTFOUND", "404")
       /\ \A t \in Types : \A d \in collections'[t] \ collections[t] :
             last'.op = "create" => Get(d, "isSoftDeleted") = Bool(FALSE)]_vars

\* A find of a document that is stored under the requested key with
\* isSoftDeleted true has called back with ENOTFOUND.
C28_SoftDeletedNotFound ==
    /\ last.op = "find"
    /\ last.drv = "ok"
    /\ Failed(last, "ENOTFOUND", "404")
    /\ \E d \in collections[last.type] :
          d["_id"] = MongoUuid(last.id) /\ Get(d, "isSoftDeleted") = Bool(TRUE)

\* C29: populate's callback runs at most once for an instance, and whenever
\* populate has been called for an instance its callback eventually runs.
C29_PopulateCompletes ==
    /\ [](\A s \in Types : populates[s].callbacks <= 1)
    /\ \A s \in Types : (populates[s].phase # "none") ~> (populates[s].callbacks = 1)

\* Every instance's populate has called back and none of its examples is in
\* flight.
AllPopulated ==
    \A s \in Types :
        /\ populates[s].callbacks = 1
        /\ \A k \in DOMAIN populates[s].items : ItemDone(populates[s].items[k])

\* C30: the step in which the database is dropped for one instance removes no
\* document from the collection of another instance; and once every instance
\* has been populated, every example that was created is in its collection.
C30_ConcurrentPopulate ==
    /\ [][\A s \in Types :
             (populates[s].phase = "dropDatabase" /\ populates'[s].phase = "each")
             => \A t \in Types \ {s} : collections[t] \subseteq collections'[t]]_vars
    /\ [](AllPopulated
          => \A s \in Types : \A k \in DOMAIN populates[s].items :
                populates[s].items[k].step = "created"
                => populates[s].items[k].document \in collections[populates[s].items[k].type])

\* C31: a search that called back without error has delivered at most as many
\* items as the total it delivered, and exactly as many when the request has
\* no page parameter.
C31_SearchCountConsistent ==
    (last.op = "search" /\ Succeeded(last))
    => /\ Len(last.result[1]) <= last.total
       /\ last.arg.page = Undefined => Len(last.result[1]) = last.total

\* The clauses a query expression joins: the operands of its $and, or the
\* expression itself.
CriteriaClauses(criteria) ==
    IF "$and" \in DOMAIN criteria[2]
    THEN {criteria[2]["$and"][2][i] : i \in 1..Len(criteria[2]["$and"][2])}
    ELSE {criteria}

\* Whether a clause constrains the attribute, directly or under its $or.
ClauseOn(clause, attribute) ==
    \/ attribute \in DOMAIN clause[2]
    \/ /\ "$or" \in DOMAIN clause[2]
       /\ \E j \in 1..Len(clause[2]["$or"][2]) : attribute \in DOMAIN clause[2]["$or"][2][j][2]

\* C32: every item a successful search delivers has, for each attribute the
\* filterMapper produced, the value it produced, whatever the user's filter
\* is; and the criteria of a search in flight constrain such an attribute by
\* the produced value alone, the user's filter on it being discarded.
C32_ExtraFiltersBound ==
    /\ (last.op = "search" /\ Succeeded(last))
       => \A i \in 1..Len(last.result[1]), x \in 1..Len(last.arg.extraFilters) :
             EqMatch(last.result[1][i], last.arg.extraFilters[x].attribute,
                     last.arg.extraFilters[x].value)
    /\ \A p \in pending :
          p.req.op = "search"
          => \A x \in 1..Len(p.req.arg.extraFilters), c \in CriteriaClauses(p.criteria) :
                ClauseOn(c, p.req.arg.extraFilters[x].attribute)
                => c = Obj(p.req.arg.extraFilters[x].attribute :> p.req.arg.extraFilters[x].value)

\* Whether a value filtering a relationship attribute holds a valid identifier
\* string: as the value itself or in the array of its $in.
HoldsIdentifierString(value) ==
    \/ IsString(value) /\ IsValidObjectId(value)
    \/ /\ value[1] = "object"
       /\ "$in" \in DOMAIN value[2]
       /\ \E i \in 1..Len(value[2]["$in"][2]) :
             IsString(value[2]["$in"][2][i]) /\ IsValidObjectId(value[2]["$in"][2][i])

\* Whether a query expression filters a relationship attribute by a valid
\* identifier string somewhere: at the top, under a junction, or in a $in.
RECURSIVE HasUncastIdentifier(_)
HasUncastIdentifier(criteria) ==
    \E k \in DOMAIN criteria[2] :
        IF k \in {"$and", "$or", "$nor"}
        THEN \E i \in 1..Len(criteria[2][k][2]) : HasUncastIdentifier(criteria[2][k][2][i])
        ELSE IsRelationship(k) /\ HoldsIdentifierString(criteria[2][k])

\* C33: the criteria a search passes to the store filter no relationship
\* attribute by a valid identifier string: every such string has been cast to
\* the native identifier, at the top level, in a $or inside a $and, and in a
\* $in array.
C33_CastAtAnyDepth ==
    \A p \in pending : p.req.op = "search" => ~HasUncastIdentifier(p.criteria)

\* Requests on one resource that has a relationship attribute: documents are
\* created with the relationship set to a valid identifier string, and
\* searched by that string.
RelationshipResource ==
    ("type" :> TypeName("articles")) @@ ("id" :> IdA) @@ ("title" :> TitleA)
    @@ ("author" :> IdA)

RelationshipFilter == <<Entry("author", <<Element("none", IdA)>>)>>

NextRelationship ==
    \/ Operations({"articles"}, {IdA}, {RelationshipResource}, {("title" :> TitleB)})
    \/ Searches({"articles"},
                SearchParams({RelationshipFilter}, {<<>>}, {Undefined}, {Undefined}))

SpecRelationship == InitStore /\ [][NextRelationship]_vars

\* C34: a successful search whose filter is a relationship attribute with a
\* valid identifier string delivers every stored document that was created
\* with that string as the attribute's value.
C34_RelationshipRoundTrip ==
    (last.op = "search" /\ Succeeded(last) /\ last.arg.filter = RelationshipFilter)
    => \A d \in collections[last.type] :
          Get(d, "author") = RelationshipFilter[1].elements[1].value
          => \E i \in 1..Len(last.result[1]) : last.result[1][i]["_id"] = d["_id"]

\* C35: validateResource throws whenever the resource carries the key of a
\* rule with a value the rule does not permit, the empty string, 0, false and
\* null included; a rule is passed over only if the resource lacks its key.
\* (An ObjectID is compared with the rule by its text; the property leaves
\* such values out.)
C35_SkipOnlyAbsentKeys ==
    last.op = "validateResource" =>
        \A i \in 1..Len(getExtraValidation(last.arg.request)) :
            LET rule == getExtraValidation(last.arg.request)[i]
            IN  (/\ rule.key \in DOMAIN last.arg.resource
                 /\ ~IsObjectID(last.arg.resource[rule.key])
                 /\ ~MeetsRule(rule.value, last.arg.resource[rule.key]))
                => last.result[1].thrown

\* C36: no stored document has a type field, whatever creates and updates
\* have been served.
C36_NoTypeDiscriminator ==
    \A t \in Types : \A d \in collections[t] : "type" \notin DOMAIN d

\* C37: a call of parseObjectRelationships leaves the object it is given,
\* with every object and array below it, equal to what it was before the
\* call.
C37_ArgumentUnchanged ==
    [][\A p \in pending :
          (last'.op = "parseObjectRelationships" /\ last'.arg = p.given)
          => p \in pending']_vars

====
